---------------------------- MODULE Spec2Model ----------------------------
(***************************************************************************)
(* A model of the MOTLY engine (malloydata/motly, Rust): the document      *)
(* tree, the statement interpreter and the parse_motly entry point.        *)
(*                                                                         *)
(* Strings are sequences of one-character strings, so that formatting and  *)
(* parsing of reference strings are computed character by character.       *)
(***************************************************************************)
EXTENDS Integers, Sequences, FiniteSets, TLC

VARIABLES
    root,      \* the document tree the interpreter mutates (a MOTLYNode)
    errors,    \* the errors pushed by the last executed statement
    pre,       \* the tree before the last executed statement
    last,      \* the last executed statement (NoStmt before the first)
    steps,     \* number of statements executed so far
    lastClone, \* the last successful `copy := $orig`: [copy, orig] paths
    root0,     \* the tree a run of execute / parse_motly was given
    listA,     \* a statement list executed on `root0`
    listB,     \* a statement list executed after listA
    input,     \* the source text given to parse_motly
    schema,    \* the schema tree given to validate_schema
    SESSIONS,  \* the session store of lib.rs: id -> [value, schema]
    NEXT_SESSION_ID,  \* the id the next wasm_session_new returns
    calls,     \* the session calls made so far, each with the store before it
    stack      \* the calls of the validator that have not returned yet

vars ==
    <<root, errors, pre, last, steps, lastClone, root0, listA, listB, input,
      schema, SESSIONS, NEXT_SESSION_ID, calls, stack>>

\* HashMap::new(), NEXT_SESSION_ID = 1, and no call made
NoSessions == <<>>

StoreUnused ==
    /\ SESSIONS = NoSessions
    /\ NEXT_SESSION_ID = 1
    /\ calls = <<>>
    /\ stack = <<>>

---------------------------------------------------------------------------
(* Generic helpers on sequences and maps.                                   *)

Front(s) == SubSeq(s, 1, Len(s) - 1)

Last(s) == s[Len(s)]

EmptyMap == [k \in {} |-> 0]

MapInsert(m, key, val) ==
    [k \in (DOMAIN m) \cup {key} |-> IF k = key THEN val ELSE m[k]]

---------------------------------------------------------------------------
(* tree.rs: the document tree.                                              *)

\* Scalar (tree.rs Scalar): String / Number / Boolean / Date
ScString(s) == [ty |-> "String", s |-> s]
\* an f64 that a decimal literal denotes: mant * 10^exp, mant without
\* trailing zeros (the rounding of f64 is not modelled)
RECURSIVE Dec(_, _)
Dec(mant, exp) ==
    IF mant = 0 THEN [mant |-> 0, exp |-> 0]
    ELSE IF mant % 10 = 0 THEN Dec(mant \div 10, exp + 1)
    ELSE [mant |-> mant, exp |-> exp]

ScNumber(n) == [ty |-> "Number", n |-> n]
ScBoolean(b) == [ty |-> "Boolean", b |-> b]
ScDate(s) == [ty |-> "Date", s |-> s]

\* Option<EqValue>: None, or Some(Scalar | Array | EnvRef)
EqNone == [k |-> "None"]
EqScalar(sc) == [k |-> "Scalar", sc |-> sc]
EqArray(arr) == [k |-> "Array", arr |-> arr]
EqEnvRef(name) == [k |-> "EnvRef", name |-> name]

\* MOTLYNode { eq, properties: Option<BTreeMap>, deleted }
MkNode(eq, hasProps, props, deleted) ==
    [eq |-> eq, hasProps |-> hasProps, props |-> props, deleted |-> deleted]

\* MOTLYNode::new()
NewNode == MkNode(EqNone, FALSE, EmptyMap, FALSE)

\* MOTLYNode::deleted()
DeletedNode == MkNode(EqNone, FALSE, EmptyMap, TRUE)

\* MOTLYPropertyValue::Node(n) / MOTLYPropertyValue::Ref(link)
PvNode(n) == [pv |-> "Node", node |-> n]
PvRef(link) == [pv |-> "Ref", link |-> link]

\* MOTLYPropertyValue::new_node()
NewNodePv == PvNode(NewNode)

\* MOTLYNode::get_or_create_properties: the node with a properties map
GetOrCreateProperties(n) ==
    IF n.hasProps THEN n ELSE [n EXCEPT !.hasProps = TRUE, !.props = EmptyMap]

\* MOTLYPropertyValue::ensure_node: a Ref becomes an empty Node
EnsureNode(p) == IF p.pv = "Ref" THEN PvNode(NewNode) ELSE p

\* BTreeMap::entry(key).or_insert_with(new_node)
EntryOrInsertNew(m, key) ==
    IF key \in DOMAIN m THEN m ELSE MapInsert(m, key, NewNodePv)

---------------------------------------------------------------------------
(* ast.rs: the statement IR.                                                *)

\* ScalarValue / TagValue
VString(s) == [t |-> "String", s |-> s]
VNumber(n) == [t |-> "Number", n |-> n]
VBoolean(b) == [t |-> "Boolean", b |-> b]
VDate(s) == [t |-> "Date", s |-> s]
VReference(ups, path) == [t |-> "Reference", ups |-> ups, path |-> path]
VNone == [t |-> "None"]
VEnv(name) == [t |-> "Env", name |-> name]
VArray(elems) == [t |-> "Array", elems |-> elems]

\* RefPathSegment::Name / RefPathSegment::Index
SegName(name) == [seg |-> "Name", name |-> name]
SegIndex(idx) == [seg |-> "Index", idx |-> idx]

\* ArrayElement { value: Option<TagValue>, properties: Option<Vec<Statement>> }
ArrayElement(hasValue, value, hasProps, properties) ==
    [hasValue |-> hasValue, value |-> value,
     hasProps |-> hasProps, properties |-> properties]

\* Statement
SetEq(path, value, hasProps, properties) ==
    [kind |-> "SetEq", path |-> path, value |-> value,
     hasProps |-> hasProps, properties |-> properties]
AssignBoth(path, value, hasProps, properties) ==
    [kind |-> "AssignBoth", path |-> path, value |-> value,
     hasProps |-> hasProps, properties |-> properties]
ReplaceProperties(path, properties) ==
    [kind |-> "ReplaceProperties", path |-> path, properties |-> properties]
UpdateProperties(path, properties) ==
    [kind |-> "UpdateProperties", path |-> path, properties |-> properties]
Define(path, deleted) ==
    [kind |-> "Define", path |-> path, deleted |-> deleted]
ClearAll == [kind |-> "ClearAll"]

---------------------------------------------------------------------------
(* error.rs: an error is its code plus the kind of its message.             *)

MkError(code, detail) == [code |-> code, detail |-> detail]

\* MOTLYError::syntax_error
SyntaxError(detail) == MkError("tag-parse-syntax-error", detail)

\* interpreter.rs clone_error
CloneError(detail) == MkError("unresolved-clone-reference", detail)

---------------------------------------------------------------------------
(* Characters: byte order of the characters the model uses (ASCII).  A      *)
(* character is a one-character string; the backquote, which a TLA+ string *)
(* cannot hold, is written "BQ".                                            *)

CharCode(c) ==
    CASE c = " " -> 32 [] c = "$" -> 36 [] c = "," -> 44 [] c = "-" -> 45
      [] c = "." -> 46 [] c = "0" -> 48 [] c = "1" -> 49 [] c = "2" -> 50
      [] c = "3" -> 51 [] c = "4" -> 52 [] c = "5" -> 53 [] c = "6" -> 54
      [] c = "7" -> 55 [] c = "8" -> 56 [] c = "9" -> 57 [] c = ":" -> 58
      [] c = "=" -> 61 [] c = "@" -> 64 [] c = "[" -> 91 [] c = "]" -> 93
      [] c = "^" -> 94 [] c = "_" -> 95 [] c = "BQ" -> 96 [] c = "a" -> 97
      [] c = "b" -> 98 [] c = "c" -> 99 [] c = "d" -> 100 [] c = "e" -> 101
      [] c = "h" -> 104 [] c = "i" -> 105 [] c = "n" -> 110 [] c = "o" -> 111
      [] c = "p" -> 112 [] c = "q" -> 113 [] c = "x" -> 120 [] c = "y" -> 121
      [] c = "z" -> 122 [] c = "{" -> 123 [] c = "}" -> 125
      [] OTHER -> 127

\* Ord for String: lexicographic by bytes (BTreeMap<String, _> key order)
RECURSIVE StrLess(_, _)
StrLess(a, b) ==
    IF b = <<>> THEN FALSE
    ELSE IF a = <<>> THEN TRUE
    ELSE IF CharCode(a[1]) # CharCode(b[1]) THEN CharCode(a[1]) < CharCode(b[1])
    ELSE StrLess(Tail(a), Tail(b))

\* The keys of a BTreeMap in iteration order
RECURSIVE SortedKeys(_)
SortedKeys(S) ==
    IF S = {} THEN <<>>
    ELSE LET m == CHOOSE x \in S : \A y \in S \ {x} : StrLess(x, y)
         IN <<m>> \o SortedKeys(S \ {m})

\* usize::to_string(): decimal digits, no leading zero
DigitChar(d) == <<"0", "1", "2", "3", "4", "5", "6", "7", "8", "9">>[d + 1]

RECURSIVE UsizeToString(_)
UsizeToString(n) ==
    IF n < 10 THEN <<DigitChar(n)>>
    ELSE UsizeToString(n \div 10) \o <<DigitChar(n % 10)>>

---------------------------------------------------------------------------
(* interpreter.rs: reference strings.                                       *)

Carets(n) == [i \in 1..n |-> "^"]

\* the loop of format_ref_string over the path; `first` is its flag
RECURSIVE FormatSegs(_, _)
FormatSegs(path, first) ==
    IF path = <<>> THEN <<>>
    ELSE IF path[1].seg = "Name"
         THEN (IF first THEN <<>> ELSE <<".">>) \o path[1].name
                  \o FormatSegs(Tail(path), FALSE)
         ELSE <<"[">> \o UsizeToString(path[1].idx) \o <<"]">>
                  \o FormatSegs(Tail(path), first)

FormatRefString(ups, path) == <<"$">> \o Carets(ups) \o FormatSegs(path, TRUE)

RECURSIVE CountCarets(_)
CountCarets(s) ==
    IF s # <<>> /\ s[1] = "^" THEN 1 + CountCarets(Tail(s)) ELSE 0

ParseRefUps(link_to) ==
    IF link_to = <<>> \/ link_to[1] # "$" THEN 0 ELSE CountCarets(Tail(link_to))

---------------------------------------------------------------------------
(* interpreter.rs: clone resolution and clone-boundary sanitization.        *)

Resolved(n) == [ok |-> TRUE, node |-> n]
Unresolved(detail) == [ok |-> FALSE, err |-> CloneError(detail)]

\* resolve_and_clone, the loop `for i in 0..len` over stmt_path
RECURSIVE WalkStmtPath(_, _, _)
WalkStmtPath(current, stmt_path, len) ==
    IF len = 0 THEN Resolved(current)
    ELSE IF current.hasProps /\ stmt_path[1] \in DOMAIN current.props
         THEN LET child == current.props[stmt_path[1]]
              IN IF child.pv = "Node"
                 THEN WalkStmtPath(child.node, Tail(stmt_path), len - 1)
                 ELSE Unresolved("path segment is a link reference")
         ELSE Unresolved("path segment not found")

\* resolve_and_clone, the loop `for seg in ref_path`
RECURSIVE FollowRefPath(_, _)
FollowRefPath(current, ref_path) ==
    IF ref_path = <<>> THEN Resolved(current)
    ELSE LET seg == ref_path[1] IN
         IF seg.seg = "Name"
         THEN IF current.hasProps /\ seg.name \in DOMAIN current.props
              THEN LET child == current.props[seg.name]
                   IN IF child.pv = "Node"
                      THEN FollowRefPath(child.node, Tail(ref_path))
                      ELSE Unresolved("property is a link reference")
              ELSE Unresolved("property not found")
         ELSE IF current.eq.k = "Array"
              THEN IF seg.idx >= Len(current.eq.arr)
                   THEN Unresolved("index out of bounds")
                   ELSE LET child == current.eq.arr[seg.idx + 1]
                        IN IF child.pv = "Node"
                           THEN FollowRefPath(child.node, Tail(ref_path))
                           ELSE Unresolved("index is a link reference")
              ELSE Unresolved("index used on non-array")

ResolveStart(root_, stmt_path, ups) ==
    IF ups = 0 THEN Resolved(root_)
    ELSE IF Len(stmt_path) >= 1 + ups
         THEN WalkStmtPath(root_, stmt_path, Len(stmt_path) - (1 + ups))
         ELSE Unresolved("not enough ancestors")

ResolveAndClone(root_, stmt_path, ups, ref_path) ==
    LET start == ResolveStart(root_, stmt_path, ups)
    IN IF start.ok THEN FollowRefPath(start.node, ref_path) ELSE start

RECURSIVE SanitizeClonedRefs(_, _, _)
RECURSIVE SanitizeClonedPv(_, _, _)
RECURSIVE SanitizeArr(_, _, _, _)
RECURSIVE SanitizeProps(_, _, _, _)

\* mutant of sanitize_cloned_pv: the boundary test is off by one
SanitizeClonedPvOffByOne(pv, depth, errs) ==
    IF pv.pv = "Ref"
    THEN LET parsed_ups == ParseRefUps(pv.link)
         IN IF parsed_ups > 0 /\ parsed_ups > depth + 1
            THEN [val |-> PvNode(NewNode),
                  errs |-> Append(errs, MkError("clone-reference-out-of-scope",
                                                "escapes the clone boundary"))]
            ELSE [val |-> pv, errs |-> errs]
    ELSE LET r == SanitizeClonedRefs(pv.node, depth, errs)
         IN [val |-> PvNode(r.node), errs |-> r.errs]

\* sanitize_cloned_pv: result is [val |-> property value, errs |-> errors]
SanitizeClonedPv(pv, depth, errs) ==
    IF pv.pv = "Ref"
    THEN LET parsed_ups == ParseRefUps(pv.link)
         IN IF parsed_ups > 0 /\ parsed_ups > depth
            THEN [val |-> PvNode(NewNode),
                  errs |-> Append(errs, MkError("clone-reference-out-of-scope",
                                                "escapes the clone boundary"))]
            ELSE [val |-> pv, errs |-> errs]
    ELSE LET r == SanitizeClonedRefs(pv.node, depth, errs)
         IN [val |-> PvNode(r.node), errs |-> r.errs]

\* `for elem in arr.iter_mut()`: elements i..Len(arr), in order
SanitizeArr(arr, i, depth, errs) ==
    IF i > Len(arr) THEN [arr |-> arr, errs |-> errs]
    ELSE LET r == SanitizeClonedPv(arr[i], depth, errs)
         IN SanitizeArr([arr EXCEPT ![i] = r.val], i + 1, depth, r.errs)

\* `for (_key, child) in props.iter_mut()`: the keys left, in key order
SanitizeProps(props, keys, depth, errs) ==
    IF keys = <<>> THEN [props |-> props, errs |-> errs]
    ELSE LET r == SanitizeClonedPv(props[keys[1]], depth, errs)
         IN SanitizeProps([props EXCEPT ![keys[1]] = r.val], Tail(keys),
                          depth, r.errs)

\* sanitize_cloned_refs: result is [node |-> node, errs |-> errors]
SanitizeClonedRefs(node, depth, errs) ==
    LET a == IF node.eq.k = "Array"
             THEN SanitizeArr(node.eq.arr, 1, depth + 1, errs)
             ELSE [arr |-> <<>>, errs |-> errs]
        n1 == IF node.eq.k = "Array"
              THEN [node EXCEPT !.eq = EqArray(a.arr)]
              ELSE node
        p == IF n1.hasProps
             THEN SanitizeProps(n1.props, SortedKeys(DOMAIN n1.props),
                                depth + 1, a.errs)
             ELSE [props |-> n1.props, errs |-> a.errs]
    IN [node |-> [n1 EXCEPT !.props = p.props], errs |-> p.errs]

---------------------------------------------------------------------------
(* interpreter.rs: access-path navigation.  A `&mut` borrow of the parent  *)
(* becomes: build the tree with the intermediates, read the parent at      *)
(* path[..len-1], write the changed parent back.                            *)

\* the node at `ppath`, every segment of which is a Node
RECURSIVE GetAt(_, _)
GetAt(node, ppath) ==
    IF ppath = <<>> THEN node
    ELSE GetAt(node.props[ppath[1]].node, Tail(ppath))

\* mutant of the write-back: the rebuilt parent keeps only the written key
RECURSIVE PutAtDropSiblings(_, _, _)
PutAtDropSiblings(node, ppath, new) ==
    IF ppath = <<>> THEN new
    ELSE [node EXCEPT !.props =
              [k \in {ppath[1]} |->
                  PvNode(PutAtDropSiblings(node.props[ppath[1]].node,
                                            Tail(ppath), new))]]

\* the tree with the node at `ppath` replaced by `new`
RECURSIVE PutAt(_, _, _)
PutAt(node, ppath, new) ==
    IF ppath = <<>> THEN new
    ELSE [node EXCEPT !.props[ppath[1]] =
              PvNode(PutAt(node.props[ppath[1]].node, Tail(ppath), new))]

\* mutant of the loop of build_access_path: every intermediate segment is
\* replaced by a fresh Node
RECURSIVE EnsurePathFresh(_, _)
EnsurePathFresh(current, ppath) ==
    IF ppath = <<>> THEN current
    ELSE LET n1 == GetOrCreateProperties(current)
         IN [n1 EXCEPT !.props =
                MapInsert(n1.props, ppath[1],
                          PvNode(EnsurePathFresh(NewNode, Tail(ppath))))]

\* the loop of build_access_path over path[..len-1]: the tree afterwards
RECURSIVE EnsurePath(_, _)
EnsurePath(current, ppath) ==
    IF ppath = <<>> THEN current
    ELSE LET n1 == GetOrCreateProperties(current)
             props == EntryOrInsertNew(n1.props, ppath[1])
             entry == EnsureNode(props[ppath[1]])
         IN [n1 EXCEPT !.props =
                MapInsert(props, ppath[1],
                          PvNode(EnsurePath(entry.node, Tail(ppath))))]

\* build_access_path: (write key, path of the parent, tree with the parent)
BuildAccessPath(node, path) ==
    [key |-> Last(path), parent |-> Front(path),
     tree |-> EnsurePath(node, Front(path))]

\* parent.get_or_create_properties().insert(key, pv), written back
InsertAtParent(bap, pv) ==
    LET parent == GetOrCreateProperties(GetAt(bap.tree, bap.parent))
    IN PutAt(bap.tree, bap.parent,
             [parent EXCEPT !.props = MapInsert(parent.props, bap.key, pv)])

---------------------------------------------------------------------------
(* interpreter.rs: the statements.  Every operator returns                 *)
(* [node |-> the node afterwards, errs |-> the error list afterwards].      *)

RECURSIVE ExecuteStatement(_, _, _)
RECURSIVE ExecuteStatements(_, _, _)
RECURSIVE ExecuteFold(_, _)
RECURSIVE ExecuteSetEq(_, _, _, _, _, _)
RECURSIVE ExecuteAssignBoth(_, _, _, _, _, _)
RECURSIVE ExecuteReplaceProperties(_, _, _, _)
RECURSIVE ExecuteUpdateProperties(_, _, _, _)
RECURSIVE SetEqSlot(_, _, _)
RECURSIVE ResolveArray(_, _)
RECURSIVE ResolveArrayElement(_, _)

RefWithProperties == MkError("ref-with-properties",
                             "Cannot add properties to a reference")

\* `for s in prop_stmts { execute_statement(s, target, errors) }`
\* `r` is the node and the errors so far
ExecuteFold(stmts, r) ==
    IF stmts = <<>> THEN r
    ELSE ExecuteFold(Tail(stmts), ExecuteStatement(stmts[1], r.node, r.errs))

ExecuteStatements(stmts, node, errs) ==
    ExecuteFold(stmts, [node |-> node, errs |-> errs])

\* resolve_array_element: result is [val |-> property value, errs |-> errors]
ResolveArrayElement(el, errs) ==
    IF el.hasValue /\ el.value.t = "Reference"
    THEN [val |-> PvRef(FormatRefString(el.value.ups, el.value.path)),
          errs |-> IF el.hasProps THEN Append(errs, RefWithProperties) ELSE errs]
    ELSE LET r1 == IF el.hasValue THEN SetEqSlot(NewNode, el.value, errs)
                   ELSE [node |-> NewNode, errs |-> errs]
             r2 == IF el.hasProps
                   THEN ExecuteStatements(el.properties, r1.node, r1.errs)
                   ELSE r1
         IN [val |-> PvNode(r2.node), errs |-> r2.errs]

\* resolve_array: result is [arr |-> property values, errs |-> errors]
ResolveArray(elements, errs) ==
    IF elements = <<>> THEN [arr |-> <<>>, errs |-> errs]
    ELSE LET r == ResolveArrayElement(elements[1], errs)
             rest == ResolveArray(Tail(elements), r.errs)
         IN [arr |-> <<r.val>> \o rest.arr, errs |-> rest.errs]

\* set_eq_slot (a Reference never reaches it: its callers handle it)
SetEqSlot(target, value, errs) ==
    CASE value.t = "Array" ->
            LET r == ResolveArray(value.elems, errs)
            IN [node |-> [target EXCEPT !.eq = EqArray(r.arr)], errs |-> r.errs]
      [] value.t = "String" ->
            [node |-> [target EXCEPT !.eq = EqScalar(ScString(value.s))],
             errs |-> errs]
      [] value.t = "Number" ->
            [node |-> [target EXCEPT !.eq = EqScalar(ScNumber(value.n))],
             errs |-> errs]
      [] value.t = "Boolean" ->
            [node |-> [target EXCEPT !.eq = EqScalar(ScBoolean(value.b))],
             errs |-> errs]
      [] value.t = "Date" ->
            [node |-> [target EXCEPT !.eq = EqScalar(ScDate(value.s))],
             errs |-> errs]
      [] value.t = "Env" ->
            [node |-> [target EXCEPT !.eq = EqEnvRef(value.name)], errs |-> errs]
      [] value.t = "None" ->
            [node |-> [target EXCEPT !.eq = EqNone], errs |-> errs]

\* mutant of execute_set_eq: the target is a fresh node, not the existing one
ExecuteSetEqFreshTarget(node, path, value, hasProps, properties, errs) ==
    IF value.t = "Reference"
    THEN LET ref_str == FormatRefString(value.ups, value.path)
             errs1 == IF hasProps THEN Append(errs, RefWithProperties) ELSE errs
             bap == BuildAccessPath(node, path)
         IN [node |-> InsertAtParent(bap, PvRef(ref_str)), errs |-> errs1]
    ELSE LET bap == BuildAccessPath(node, path)
             r1 == SetEqSlot(NewNode, value, errs)
             r2 == IF hasProps
                   THEN ExecuteStatements(properties, r1.node, r1.errs)
                   ELSE r1
         IN [node |-> InsertAtParent(bap, PvNode(r2.node)), errs |-> r2.errs]

\* mutant of execute_set_eq: the Link is written with entry().or_insert, so
\* a value already at the write key stays
ExecuteSetEqRefOnlyIfAbsent(node, path, value, hasProps, properties, errs) ==
    IF value.t = "Reference"
    THEN LET ref_str == FormatRefString(value.ups, value.path)
             errs1 == IF hasProps THEN Append(errs, RefWithProperties) ELSE errs
             bap == BuildAccessPath(node, path)
             parent == GetOrCreateProperties(GetAt(bap.tree, bap.parent))
         IN [node |-> IF bap.key \in DOMAIN parent.props
                      THEN InsertAtParent(bap, parent.props[bap.key])
                      ELSE InsertAtParent(bap, PvRef(ref_str)),
             errs |-> errs1]
    ELSE LET bap == BuildAccessPath(node, path)
             parent == GetOrCreateProperties(GetAt(bap.tree, bap.parent))
             props == EntryOrInsertNew(parent.props, bap.key)
             target == EnsureNode(props[bap.key]).node
             r1 == SetEqSlot(target, value, errs)
             r2 == IF hasProps
                   THEN ExecuteStatements(properties, r1.node, r1.errs)
                   ELSE r1
         IN [node |-> InsertAtParent(bap, PvNode(r2.node)), errs |-> r2.errs]

ExecuteSetEq(node, path, value, hasProps, properties, errs) ==
    IF value.t = "Reference"
    THEN LET ref_str == FormatRefString(value.ups, value.path)
             errs1 == IF hasProps THEN Append(errs, RefWithProperties) ELSE errs
             bap == BuildAccessPath(node, path)
         IN [node |-> InsertAtParent(bap, PvRef(ref_str)), errs |-> errs1]
    ELSE LET bap == BuildAccessPath(node, path)
             parent == GetOrCreateProperties(GetAt(bap.tree, bap.parent))
             props == EntryOrInsertNew(parent.props, bap.key)
             target == EnsureNode(props[bap.key]).node
             r1 == SetEqSlot(target, value, errs)
             r2 == IF hasProps
                   THEN ExecuteStatements(properties, r1.node, r1.errs)
                   ELSE r1
         IN [node |-> InsertAtParent(bap, PvNode(r2.node)), errs |-> r2.errs]

\* mutant of execute_assign_both: the access path is built before the
\* reference is resolved, so a failed clone still creates the intermediates
ExecuteAssignBothBuildFirst(node, path, value, hasProps, properties, errs) ==
    IF value.t = "Reference"
    THEN LET bap == BuildAccessPath(node, path)
             cloned == ResolveAndClone(node, path, value.ups, value.path)
         IN IF cloned.ok
            THEN LET s == SanitizeClonedRefs(cloned.node, 0, errs)
                     r == IF hasProps
                          THEN ExecuteStatements(
                                   properties,
                                   [s.node EXCEPT !.hasProps = TRUE,
                                                  !.props = EmptyMap],
                                   s.errs)
                          ELSE s
                 IN [node |-> InsertAtParent(bap, PvNode(r.node)),
                     errs |-> r.errs]
            ELSE [node |-> bap.tree, errs |-> Append(errs, cloned.err)]
    ELSE LET r1 == SetEqSlot(NewNode, value, errs)
             r2 == IF hasProps
                   THEN ExecuteStatements(properties, r1.node, r1.errs)
                   ELSE r1
         IN [node |-> InsertAtParent(BuildAccessPath(node, path),
                                     PvNode(r2.node)),
             errs |-> r2.errs]

\* mutant of execute_assign_both: a literal is merged into the node already
\* at the write key, as `=` does
ExecuteAssignBothMerge(node, path, value, hasProps, properties, errs) ==
    IF value.t = "Reference"
    THEN LET cloned == ResolveAndClone(node, path, value.ups, value.path)
         IN IF cloned.ok
            THEN LET s == SanitizeClonedRefs(cloned.node, 0, errs)
                     r == IF hasProps
                          THEN ExecuteStatements(
                                   properties,
                                   [s.node EXCEPT !.hasProps = TRUE,
                                                  !.props = EmptyMap],
                                   s.errs)
                          ELSE s
                 IN [node |-> InsertAtParent(BuildAccessPath(node, path),
                                             PvNode(r.node)),
                     errs |-> r.errs]
            ELSE [node |-> node, errs |-> Append(errs, cloned.err)]
    ELSE ExecuteSetEq(node, path, value, hasProps, properties, errs)

ExecuteAssignBoth(node, path, value, hasProps, properties, errs) ==
    IF value.t = "Reference"
    THEN LET cloned == ResolveAndClone(node, path, value.ups, value.path)
         IN IF cloned.ok
            THEN LET s == SanitizeClonedRefs(cloned.node, 0, errs)
                     r == IF hasProps
                          THEN ExecuteStatements(
                                   properties,
                                   [s.node EXCEPT !.hasProps = TRUE,
                                                  !.props = EmptyMap],
                                   s.errs)
                          ELSE s
                 IN [node |-> InsertAtParent(BuildAccessPath(node, path),
                                             PvNode(r.node)),
                     errs |-> r.errs]
            ELSE [node |-> node, errs |-> Append(errs, cloned.err)]
    ELSE LET r1 == SetEqSlot(NewNode, value, errs)
             r2 == IF hasProps
                   THEN ExecuteStatements(properties, r1.node, r1.errs)
                   ELSE r1
         IN [node |-> InsertAtParent(BuildAccessPath(node, path),
                                     PvNode(r2.node)),
             errs |-> r2.errs]

\* mutant of execute_replace_properties: the result starts as the existing
\* node, properties included
ExecuteReplacePropertiesKeepAll(node, path, properties, errs) ==
    LET bap == BuildAccessPath(node, path)
        parent == GetOrCreateProperties(GetAt(bap.tree, bap.parent))
        result == IF bap.key \in DOMAIN parent.props
                     /\ parent.props[bap.key].pv = "Node"
                  THEN parent.props[bap.key].node
                  ELSE NewNode
        r == ExecuteStatements(properties, result, errs)
    IN [node |-> InsertAtParent(bap, PvNode(r.node)), errs |-> r.errs]

ExecuteReplaceProperties(node, path, properties, errs) ==
    LET bap == BuildAccessPath(node, path)
        parent == GetOrCreateProperties(GetAt(bap.tree, bap.parent))
        result == IF bap.key \in DOMAIN parent.props
                     /\ parent.props[bap.key].pv = "Node"
                  THEN [NewNode EXCEPT !.eq = parent.props[bap.key].node.eq]
                  ELSE NewNode
        r == ExecuteStatements(properties, result, errs)
    IN [node |-> InsertAtParent(bap, PvNode(r.node)), errs |-> r.errs]

\* mutant of execute_update_properties: the target starts from a fresh node
\* that keeps only the eq of the existing child
ExecuteUpdatePropertiesFresh(node, path, properties, errs) ==
    LET bap == BuildAccessPath(node, path)
        parent == GetOrCreateProperties(GetAt(bap.tree, bap.parent))
        props == EntryOrInsertNew(parent.props, bap.key)
        target == [NewNode EXCEPT !.eq = EnsureNode(props[bap.key]).node.eq]
        r == ExecuteStatements(properties, target, errs)
    IN [node |-> InsertAtParent(bap, PvNode(r.node)), errs |-> r.errs]

ExecuteUpdateProperties(node, path, properties, errs) ==
    LET bap == BuildAccessPath(node, path)
        parent == GetOrCreateProperties(GetAt(bap.tree, bap.parent))
        props == EntryOrInsertNew(parent.props, bap.key)
        target == EnsureNode(props[bap.key]).node
        r == ExecuteStatements(properties, target, errs)
    IN [node |-> InsertAtParent(bap, PvNode(r.node)), errs |-> r.errs]

\* mutant of execute_define: `name` puts a fresh Node at the write key
\* whatever is there
ExecuteDefineOverwrite(node, path, deleted) ==
    LET bap == BuildAccessPath(node, path)
    IN IF deleted
       THEN InsertAtParent(bap, PvNode(DeletedNode))
       ELSE InsertAtParent(bap, NewNodePv)

ExecuteDefine(node, path, deleted) ==
    LET bap == BuildAccessPath(node, path)
        parent == GetOrCreateProperties(GetAt(bap.tree, bap.parent))
    IN IF deleted
       THEN InsertAtParent(bap, PvNode(DeletedNode))
       ELSE InsertAtParent(bap, EntryOrInsertNew(parent.props, bap.key)[bap.key])

ExecuteStatement(stmt, node, errs) ==
    CASE stmt.kind = "SetEq" ->
            ExecuteSetEq(node, stmt.path, stmt.value, stmt.hasProps,
                         stmt.properties, errs)
      [] stmt.kind = "AssignBoth" ->
            ExecuteAssignBoth(node, stmt.path, stmt.value, stmt.hasProps,
                              stmt.properties, errs)
      [] stmt.kind = "ReplaceProperties" ->
            ExecuteReplaceProperties(node, stmt.path, stmt.properties, errs)
      [] stmt.kind = "UpdateProperties" ->
            ExecuteUpdateProperties(node, stmt.path, stmt.properties, errs)
      [] stmt.kind = "Define" ->
            [node |-> ExecuteDefine(node, stmt.path, stmt.deleted), errs |-> errs]
      [] stmt.kind = "ClearAll" ->
            [node |-> [node EXCEPT !.eq = EqNone, !.hasProps = TRUE,
                                   !.props = EmptyMap],
             errs |-> errs]

\* mutant of execute: the run ends at the first statement that pushes an
\* error
RECURSIVE ExecuteStopAtError(_, _)
ExecuteStopAtError(statements, root_) ==
    IF statements = <<>> THEN [node |-> root_, errs |-> <<>>]
    ELSE LET r == ExecuteStatement(Head(statements), root_, <<>>)
         IN IF r.errs # <<>> THEN r
            ELSE ExecuteStopAtError(Tail(statements), r.node)

\* execute: the statements folded into the root, from an empty error list
Execute(statements, root_) == ExecuteStatements(statements, root_, <<>>)

---------------------------------------------------------------------------
(* The statements the model executes, written in MOTLY in the comments.     *)

MaxSteps == 3     \* statements executed in one behaviour
MaxIdx == 2       \* largest array index a clone reference uses

na == <<"a">>
nb == <<"b">>

NoProps == <<>>

Ref(ups, path) == VReference(ups, path)

\* `[$^^a, 1 { a = $^^b }]`
ArrayWithLinks ==
    VArray(<<ArrayElement(TRUE, Ref(2, <<SegName(na)>>), FALSE, NoProps),
             ArrayElement(TRUE, VNumber(Dec(1, 0)), TRUE,
                          <<SetEq(<<na>>, Ref(2, <<SegName(nb)>>), FALSE, NoProps)>>)>>)

DefineStmts ==
    { Define(<<na>>, FALSE),                \* a
      Define(<<na, nb>>, FALSE),            \* a.b
      Define(<<nb>>, FALSE),                \* b
      Define(<<na>>, TRUE),                 \* -a
      Define(<<nb>>, TRUE) }                \* -b

SetEqStmts ==
    { SetEq(<<na>>, VNumber(Dec(1, 0)), FALSE, NoProps),                    \* a = 1
      SetEq(<<nb>>, ArrayWithLinks, FALSE, NoProps),                \* b = [...]
      SetEq(<<na, nb>>, VNone, FALSE, NoProps),                     \* a.b = @none
      SetEq(<<na>>, VEnv(<<"e">>), TRUE,                            \* a = @env.e { b = hi }
            <<SetEq(<<nb>>, VString(<<"h", "i">>), FALSE, NoProps)>>),
      SetEq(<<nb>>, Ref(0, <<SegName(na)>>), FALSE, NoProps),       \* b = $a
      SetEq(<<na>>, Ref(1, <<SegName(nb), SegIndex(0)>>), TRUE,     \* a = $^b[0] { b = 1 }
            <<SetEq(<<nb>>, VNumber(Dec(1, 0)), FALSE, NoProps)>>),
      SetEq(<<na, na>>, Ref(2, <<SegName(nb)>>), FALSE, NoProps),   \* a.a = $^^b
      SetEq(<<na, nb, na>>, Ref(2, <<SegName(nb)>>), FALSE, NoProps) }  \* a.b.a = $^^b

AssignBothStmts ==
    { AssignBoth(<<nb>>, Ref(0, <<SegName(na)>>), FALSE, NoProps),  \* b := $a
      AssignBoth(<<nb>>, Ref(0, <<SegName(na)>>), TRUE,             \* b := $a { a = $^^b }
                 <<SetEq(<<na>>, Ref(2, <<SegName(nb)>>), FALSE, NoProps)>>),
      AssignBoth(<<na, nb>>, Ref(0, <<SegName(nb)>>), FALSE, NoProps),  \* a.b := $b
      AssignBoth(<<na, nb>>, Ref(1, <<SegName(nb)>>), FALSE, NoProps),  \* a.b := $^b
      AssignBoth(<<na>>, Ref(1, <<SegName(nb)>>), FALSE, NoProps),      \* a := $^b
      AssignBoth(<<nb, na, nb>>, Ref(1, <<SegName(na)>>), FALSE, NoProps),  \* b.a.b := $^a
      AssignBoth(<<na>>, VNumber(Dec(2, 0)), FALSE, NoProps),                   \* a := 2
      AssignBoth(<<nb>>, VBoolean(TRUE), TRUE,                          \* b := @true { a = 1 }
                 <<SetEq(<<na>>, VNumber(Dec(1, 0)), FALSE, NoProps)>>),
      AssignBoth(<<na>>, VString(<<"h", "i">>), TRUE,                   \* a := hi { b -... }
                 <<Define(<<nb>>, FALSE), ClearAll>>) }
    \cup { AssignBoth(<<na>>, Ref(0, <<SegName(nb), SegIndex(i)>>), FALSE, NoProps) :
               i \in 0..MaxIdx }                                        \* a := $b[i]

ReplacePropertiesStmts ==
    { ReplaceProperties(<<na>>,                                                \* a: { b = 3 }
                        <<SetEq(<<nb>>, VNumber(Dec(3, 0)), FALSE, NoProps)>>),
      ReplaceProperties(<<nb>>, <<>>),                                           \* b: { }
      ReplaceProperties(<<na, nb>>, <<Define(<<na>>, FALSE)>>),                  \* a.b: { a }
      ReplaceProperties(<<na>>, <<ClearAll, Define(<<nb>>, FALSE)>>) }           \* a: { -... b }

UpdatePropertiesStmts ==
    { UpdateProperties(<<na>>,                                       \* a { b := $b }
          <<AssignBoth(<<nb>>, Ref(0, <<SegName(nb)>>), FALSE, NoProps)>>),
      UpdateProperties(<<nb>>,                                       \* b { a = 1 }
          <<SetEq(<<na>>, VNumber(Dec(1, 0)), FALSE, NoProps)>>),
      UpdateProperties(<<nb>>,                                       \* b { b = 2 }
          <<SetEq(<<nb>>, VNumber(Dec(2, 0)), FALSE, NoProps)>>),
      UpdateProperties(<<na, nb>>, <<ClearAll>>) }                   \* a.b { -... }

---------------------------------------------------------------------------
(* The interpreter as a state machine: one action per statement kind, each *)
(* one call of execute_statement on the document root.                      *)

NoStmt == [kind |-> "None"]

NoClone == [copy |-> <<>>, orig |-> <<>>]

IsNamesOnly(segs) == \A i \in 1..Len(segs) : segs[i].seg = "Name"

\* the path from the root of the referent of (ups, segs), segs all names,
\* for a statement at stmt_path
ReferentPath(stmt_path, ups, segs) ==
    (IF ups = 0 THEN <<>> ELSE SubSeq(stmt_path, 1, Len(stmt_path) - 1 - ups))
        \o [i \in 1..Len(segs) |-> segs[i].name]

\* history: which clone, if any, `stmt` performs on `tree`
CloneOf(stmt, tree) ==
    IF /\ stmt.kind = "AssignBoth"
       /\ stmt.value.t = "Reference"
       /\ IsNamesOnly(stmt.value.path)
       /\ ResolveAndClone(tree, stmt.path, stmt.value.ups, stmt.value.path).ok
    THEN [copy |-> stmt.path,
          orig |-> ReferentPath(stmt.path, stmt.value.ups, stmt.value.path)]
    ELSE NoClone

Init ==
    /\ root = NewNode
    /\ errors = <<>>
    /\ pre = NewNode
    /\ last = NoStmt
    /\ steps = 0
    /\ lastClone = NoClone
    /\ root0 = NewNode
    /\ listA = <<>>
    /\ listB = <<>>
    /\ input = <<>>
    /\ schema = NewNode
    /\ StoreUnused

Step(stmt) ==
    /\ steps < MaxSteps
    /\ LET r == ExecuteStatement(stmt, root, <<>>)
       IN /\ root' = r.node
          /\ errors' = r.errs
    /\ pre' = root
    /\ last' = stmt
    /\ steps' = steps + 1
    /\ lastClone' = IF CloneOf(stmt, root) # NoClone THEN CloneOf(stmt, root)
                    ELSE lastClone
    /\ UNCHANGED <<root0, listA, listB, input, schema,
                   SESSIONS, NEXT_SESSION_ID, calls, stack>>

DoDefine == \E stmt \in DefineStmts : Step(stmt)

DoSetEq == \E stmt \in SetEqStmts : Step(stmt)

DoAssignBoth == \E stmt \in AssignBothStmts : Step(stmt)

DoReplaceProperties == \E stmt \in ReplacePropertiesStmts : Step(stmt)

DoUpdateProperties == \E stmt \in UpdatePropertiesStmts : Step(stmt)

DoClearAll == Step(ClearAll)

Next ==
    \/ DoDefine
    \/ DoSetEq
    \/ DoAssignBoth
    \/ DoReplaceProperties
    \/ DoUpdateProperties
    \/ DoClearAll

Spec == Init /\ [][Next]_vars

---------------------------------------------------------------------------
(* Vocabulary of the properties: read-only views of a tree.                 *)

Absent == [pv |-> "Absent"]

\* the property value found at `path` from `node`, or Absent
RECURSIVE Lookup(_, _)
Lookup(node, path) ==
    IF ~node.hasProps \/ path[1] \notin DOMAIN node.props THEN Absent
    ELSE LET child == node.props[path[1]]
         IN IF Len(path) = 1 THEN child
            ELSE IF child.pv = "Node" THEN Lookup(child.node, Tail(path))
            ELSE Absent

\* the number of `^` of a reference string
LinkUps(link) ==
    CHOOSE n \in 0..Len(link) :
        /\ \A i \in 2..(n + 1) : i <= Len(link) /\ link[i] = "^"
        /\ (n + 2 > Len(link) \/ link[n + 2] # "^")

\* the direct children of a node: its array elements and property values
Children(node) ==
    (IF node.eq.k = "Array"
     THEN {node.eq.arr[i] : i \in 1..Len(node.eq.arr)} ELSE {})
    \cup {node.props[k] : k \in DOMAIN node.props}

\* every Link below `node`, itself at depth d, has ups <= its own depth
RECURSIVE LinksWithin(_, _)
LinksWithin(node, d) ==
    \A c \in Children(node) :
        IF c.pv = "Ref" THEN LinkUps(c.link) <= d + 1
        ELSE LinksWithin(c.node, d + 1)

\* the same for the Links below the array elements of `node` only
ArrayLinksWithin(node, d) ==
    node.eq.k = "Array" =>
        \A i \in 1..Len(node.eq.arr) :
            LET c == node.eq.arr[i]
            IN IF c.pv = "Ref" THEN LinkUps(c.link) <= d + 1
               ELSE LinksWithin(c.node, d + 1)

HasCode(errs, code) == \E i \in 1..Len(errs) : errs[i].code = code

CountCode(errs, code) == Cardinality({i \in 1..Len(errs) : errs[i].code = code})

\* the last statement was `path := $ref`
LastIsClone == last.kind = "AssignBoth" /\ last.value.t = "Reference"

\* the property value reached from `pvv` along names and indices, passing
\* through Nodes only and ending at a Node; Absent otherwise
RECURSIVE Descend(_, _)
Descend(pvv, segs) ==
    IF pvv.pv # "Node" THEN Absent
    ELSE IF segs = <<>> THEN pvv
    ELSE LET n == pvv.node
             sg == segs[1]
         IN IF sg.seg = "Name"
            THEN IF n.hasProps /\ sg.name \in DOMAIN n.props
                 THEN Descend(n.props[sg.name], Tail(segs))
                 ELSE Absent
            ELSE IF n.eq.k = "Array" /\ sg.idx < Len(n.eq.arr)
                 THEN Descend(n.eq.arr[sg.idx + 1], Tail(segs))
                 ELSE Absent

\* the referent of reference (ups, segs) for a statement at stmt_path: from
\* the root when ups = 0, else from stmt_path[0 .. len-1-ups]; Absent when
\* there are too few ancestors or the traversal fails
Referent(tree, stmt_path, ups, segs) ==
    IF ups > 0 /\ Len(stmt_path) - 1 - ups < 0 THEN Absent
    ELSE LET n == IF ups = 0 THEN 0 ELSE Len(stmt_path) - 1 - ups
         IN Descend(PvNode(tree), [i \in 1..n |-> SegName(stmt_path[i])] \o segs)

LastReferent == Referent(pre, last.path, last.value.ups, last.value.path)

\* ... and its reference was resolved in the tree it ran on
LastCloneResolved == LastIsClone /\ LastReferent # Absent

---------------------------------------------------------------------------
\* C3 (as stated): after any successful `name := $ref`, with or without a
\* block, every Link in the node inserted at the write key has
\* ups <= its depth within the clone.
C3_CloneBoundaryAnyBlock ==
    LastCloneResolved => LinksWithin(Lookup(root, last.path).node, 0)

\* C3 (amended): after a successful `name := $ref` without a block, every
\* Link in the inserted node has ups <= its depth within the clone; with a
\* block, every Link below the node's array elements (the cloned value) has.
C3_CloneBoundary ==
    LastCloneResolved =>
        LET n == Lookup(root, last.path).node
        IN IF last.hasProps THEN ArrayLinksWithin(n, 0) ELSE LinksWithin(n, 0)

\* C3 witness: a clone without a block neutralized an escaping Link and
\* kept a relative Link that stays inside the clone.
RECURSIVE HasRelativeLink(_)
HasRelativeLink(node) ==
    \E c \in Children(node) :
        IF c.pv = "Ref" THEN LinkUps(c.link) > 0 ELSE HasRelativeLink(c.node)

C3_Witness ==
    /\ LastCloneResolved
    /\ ~last.hasProps
    /\ HasCode(errors, "clone-reference-out-of-scope")
    /\ HasRelativeLink(Lookup(root, last.path).node)

---------------------------------------------------------------------------
\* C4: when the reference of `path := $ref` cannot be resolved, the
\* statement pushes exactly one unresolved-clone-reference error and leaves
\* the whole tree unchanged (nothing created at the write key or along the
\* path, a value already at the write key kept).
C4_UnresolvedCloneNoChange ==
    (LastIsClone /\ LastReferent = Absent) =>
        /\ root = pre
        /\ Len(errors) = 1
        /\ errors[1].code = "unresolved-clone-reference"

\* C4 witness: an unresolved clone whose path has an intermediate segment
\* that does not exist in the tree.
C4_Witness ==
    /\ LastIsClone
    /\ LastReferent = Absent
    /\ Len(last.path) >= 2
    /\ Lookup(pre, <<last.path[1]>>) = Absent
    /\ HasCode(errors, "unresolved-clone-reference")

---------------------------------------------------------------------------
\* C5: a clone whose reference has ups = 0 resolves from the root of the
\* document wherever the statement occurs: whenever `$x` resolves from the
\* document root, the dotted form `a.copy := $x` and the nested form
\* `a { copy := $x }` give the same tree and the same errors.
NestedForm(stmt) ==
    UpdateProperties(Front(stmt.path),
                     <<AssignBoth(<<Last(stmt.path)>>, stmt.value,
                                  stmt.hasProps, stmt.properties)>>)

C5_NestedCloneFromRoot ==
    (LastCloneResolved /\ last.value.ups = 0 /\ Len(last.path) >= 2) =>
        ExecuteStatement(NestedForm(last), pre, <<>>)
            = [node |-> root, errs |-> errors]

---------------------------------------------------------------------------
\* C6: after `copy := $orig` succeeds the subtree at copy equals the subtree
\* at orig, up to the Links the clone neutralized; and (copy and orig being
\* different places, neither inside the other) every later statement that
\* writes under copy leaves the subtree at orig unchanged, and every later
\* statement that writes under orig leaves the subtree at copy unchanged.
RECURSIVE SameUpToSanitized(_, _)
SameUpToSanitized(c, o) ==
    IF o.pv = "Ref" THEN c = o \/ c = PvNode(NewNode)
    ELSE /\ c.pv = "Node"
         /\ c.node.deleted = o.node.deleted
         /\ c.node.hasProps = o.node.hasProps
         /\ DOMAIN c.node.props = DOMAIN o.node.props
         /\ \A k \in DOMAIN o.node.props :
                SameUpToSanitized(c.node.props[k], o.node.props[k])
         /\ IF o.node.eq.k = "Array"
            THEN /\ c.node.eq.k = "Array"
                 /\ Len(c.node.eq.arr) = Len(o.node.eq.arr)
                 /\ \A i \in 1..Len(o.node.eq.arr) :
                        SameUpToSanitized(c.node.eq.arr[i], o.node.eq.arr[i])
            ELSE c.node.eq = o.node.eq

IsPrefix(p, q) == Len(p) <= Len(q) /\ SubSeq(q, 1, Len(p)) = p

Disjoint(p, q) == ~IsPrefix(p, q) /\ ~IsPrefix(q, p)

WritesUnder(stmt, p) == stmt.kind \notin {"ClearAll", "None"} /\ IsPrefix(p, stmt.path)

C6_CloneIsDeepCopy ==
    /\ (LastCloneResolved /\ ~last.hasProps) =>
           SameUpToSanitized(Lookup(root, last.path), LastReferent)
    /\ (lastClone # NoClone /\ Disjoint(lastClone.copy, lastClone.orig)) =>
           /\ WritesUnder(last, lastClone.copy) =>
                  Lookup(root, lastClone.orig) = Lookup(pre, lastClone.orig)
           /\ WritesUnder(last, lastClone.orig) =>
                  Lookup(root, lastClone.copy) = Lookup(pre, lastClone.copy)

\* C6 witness: a statement after the clone changed the subtree at copy while
\* the subtree at orig, a node with properties, is still there.
C6_Witness ==
    /\ lastClone # NoClone
    /\ Disjoint(lastClone.copy, lastClone.orig)
    /\ CloneOf(last, pre) = NoClone
    /\ WritesUnder(last, lastClone.copy)
    /\ Lookup(pre, lastClone.copy) # Absent
    /\ Lookup(root, lastClone.copy) # Lookup(pre, lastClone.copy)
    /\ Lookup(root, lastClone.orig) # Absent
    /\ Lookup(root, lastClone.orig).pv = "Node"
    /\ Lookup(root, lastClone.orig).node.hasProps

---------------------------------------------------------------------------
(* Frame of a path-taking statement.                                        *)

\* the node a path segment starts from: the Node already there, else (the
\* segment absent or a Link) a fresh empty Node
NodeOrNew(node, key) ==
    IF key \in DOMAIN node.props /\ node.props[key].pv = "Node"
    THEN node.props[key].node
    ELSE NewNode

\* `new` is `old` changed on the write path only: every node on the path
\* keeps its eq, its deleted flag and its other properties; nothing is said
\* of the property value at the write key itself
RECURSIVE FrameOutside(_, _, _)
FrameOutside(old, new, path) ==
    /\ new.eq = old.eq
    /\ new.deleted = old.deleted
    /\ new.hasProps
    /\ DOMAIN new.props = (DOMAIN old.props) \cup {path[1]}
    /\ \A k \in (DOMAIN old.props) \ {path[1]} : new.props[k] = old.props[k]
    /\ Len(path) > 1 =>
           /\ new.props[path[1]].pv = "Node"
           /\ FrameOutside(NodeOrNew(old, path[1]), new.props[path[1]].node,
                           Tail(path))

\* the eq slot a literal value stands for
EqOfLiteral(value) ==
    CASE value.t = "String" -> EqScalar(ScString(value.s))
      [] value.t = "Number" -> EqScalar(ScNumber(value.n))
      [] value.t = "Boolean" -> EqScalar(ScBoolean(value.b))
      [] value.t = "Date" -> EqScalar(ScDate(value.s))
      [] value.t = "Env" -> EqEnvRef(value.name)
      [] value.t = "None" -> EqNone
      [] value.t = "Array" -> EqArray(ResolveArray(value.elems, <<>>).arr)

---------------------------------------------------------------------------
\* C7: after `name = V` with a literal V and no block, the node at the write
\* key has its eq set from V (none for @none), its property map is what it
\* was before the statement (none if no Node was there), and the tree
\* outside the write path is unchanged.
LastIsSetEqLiteral ==
    last.kind = "SetEq" /\ last.value.t # "Reference" /\ ~last.hasProps

C7_SetEqKeepsProperties ==
    LastIsSetEqLiteral =>
        LET new == Lookup(root, last.path)
            old == Lookup(pre, last.path)
        IN /\ new.pv = "Node"
           /\ new.node.eq = EqOfLiteral(last.value)
           /\ IF old.pv = "Node"
              THEN /\ new.node.hasProps = old.node.hasProps
                   /\ new.node.props = old.node.props
              ELSE ~new.node.hasProps
           /\ FrameOutside(pre, root, last.path)

\* C7 witness: `name = V` changed the eq of a Node that has properties.
C7_Witness ==
    /\ LastIsSetEqLiteral
    /\ Lookup(pre, last.path).pv = "Node"
    /\ DOMAIN Lookup(pre, last.path).node.props # {}
    /\ Lookup(pre, last.path).node.eq # Lookup(root, last.path).node.eq

---------------------------------------------------------------------------
\* C8: after `name = $ref` the write key holds a Link carrying the formatted
\* reference string, whatever was there before; with a block exactly one
\* ref-with-properties error is pushed (none without), and the rest of the
\* tree is as before, so no statement of the block has had an effect.
LastIsSetEqRef == last.kind = "SetEq" /\ last.value.t = "Reference"

---------------------------------------------------------------------------
(* Blocks of `:=` and `:`.                                                  *)

BlockOf(stmt) ==
    IF stmt.kind = "ReplaceProperties" \/ stmt.hasProps
    THEN stmt.properties
    ELSE <<>>

HasClearAll(stmts) == \E i \in 1..Len(stmts) : stmts[i].kind = "ClearAll"

\* the node S* builds when executed on a fresh empty node
FromEmpty(stmts) == Execute(stmts, NewNode).node

LastIsAssignLiteral == last.kind = "AssignBoth" /\ last.value.t # "Reference"

\* C9 as stated: after `name := V` or `name := V { S* }` with a literal V
\* the node at the write key has eq from V, is not deleted, and has only the
\* properties S* produces on a fresh empty node.
C9_AssignBothLiteralEq ==
    LastIsAssignLiteral =>
        LET new == Lookup(root, last.path)
            fresh == FromEmpty(BlockOf(last))
        IN /\ new.pv = "Node"
           /\ new.node.eq = EqOfLiteral(last.value)
           /\ ~new.node.deleted
           /\ new.node.hasProps = fresh.hasProps
           /\ new.node.props = fresh.props

\* C9 amended: the same, except that the eq is none when S* holds a `-...`
\* statement, which clears the eq of the node being built; the tree outside
\* the write path is unchanged.
C9_AssignBothLiteral ==
    LastIsAssignLiteral =>
        LET new == Lookup(root, last.path)
            fresh == FromEmpty(BlockOf(last))
        IN /\ new.pv = "Node"
           /\ new.node.eq = IF HasClearAll(BlockOf(last))
                            THEN EqNone
                            ELSE EqOfLiteral(last.value)
           /\ ~new.node.deleted
           /\ new.node.hasProps = fresh.hasProps
           /\ new.node.props = fresh.props
           /\ FrameOutside(pre, root, last.path)

\* C9 witness: `name := V` over a tombstone or a Node with properties, all
\* of which is gone afterwards.
C9_Witness ==
    /\ LastIsAssignLiteral
    /\ Lookup(pre, last.path).pv = "Node"
    /\ \/ Lookup(pre, last.path).node.deleted
       \/ DOMAIN Lookup(pre, last.path).node.props # {}
    /\ Lookup(root, last.path).node.eq = EqOfLiteral(last.value)
    /\ ~Lookup(root, last.path).node.hasProps

---------------------------------------------------------------------------
\* the eq of the child at the write key before the statement, none if the
\* child was a Link or absent
PriorEq ==
    IF Lookup(pre, last.path).pv = "Node"
    THEN Lookup(pre, last.path).node.eq
    ELSE EqNone

---------------------------------------------------------------------------
(* execute on statement lists: a list A is run on a root, then a list B on  *)
(* the result, one call of execute for each statement appended.             *)

MaxListLen == 2

\* roots to start from: trees that execute builds from the empty root
SeedRoots ==
    { NewNode,
      Execute(<<SetEq(<<na>>, VEnv(<<"e">>), TRUE,
                      <<SetEq(<<nb>>, VString(<<"h", "i">>), FALSE, NoProps)>>)>>,
              NewNode).node,                               \* a = @env.e { b = hi }
      Execute(<<Define(<<nb>>, TRUE),
                SetEq(<<na, na>>, Ref(2, <<SegName(nb)>>), FALSE, NoProps)>>,
              NewNode).node }                              \* -b  a.a = $^^b

ListStmts ==
    { SetEq(<<na>>, VNumber(Dec(1, 0)), FALSE, NoProps),             \* a = 1
      SetEq(<<na>>, Ref(1, <<SegName(nb), SegIndex(0)>>), TRUE,      \* a = $^b[0] { b = 1 }
            <<SetEq(<<nb>>, VNumber(Dec(1, 0)), FALSE, NoProps)>>),
      AssignBoth(<<nb>>, Ref(0, <<SegName(na)>>), FALSE, NoProps),   \* b := $a
      AssignBoth(<<na, nb>>, Ref(0, <<SegName(nb)>>), FALSE, NoProps),  \* a.b := $b
      Define(<<na>>, TRUE) }                                         \* -a

InitExec ==
    /\ root0 \in SeedRoots
    /\ root = root0
    /\ errors = <<>>
    /\ pre = root0
    /\ last = NoStmt
    /\ steps = 0
    /\ lastClone = NoClone
    /\ listA = <<>>
    /\ listB = <<>>
    /\ input = <<>>
    /\ schema = NewNode
    /\ StoreUnused

\* execute(<<stmt>>, root), the errors appended to those collected so far
RunStmt(stmt) ==
    /\ LET r == Execute(<<stmt>>, root)
       IN /\ root' = r.node
          /\ errors' = errors \o r.errs
    /\ pre' = root
    /\ last' = stmt
    /\ UNCHANGED <<steps, lastClone, root0, input, schema,
                   SESSIONS, NEXT_SESSION_ID, calls, stack>>

RunA ==
    \E stmt \in ListStmts :
        /\ listB = <<>>
        /\ Len(listA) < MaxListLen
        /\ listA' = Append(listA, stmt)
        /\ listB' = listB
        /\ RunStmt(stmt)

RunB ==
    \E stmt \in ListStmts :
        /\ Len(listB) < MaxListLen
        /\ listB' = Append(listB, stmt)
        /\ listA' = listA
        /\ RunStmt(stmt)

NextExec == RunA \/ RunB

SpecExec == InitExec /\ [][NextExec]_vars

\* C2: executing listA on the start root and then listB on the result
\* leaves the tree that executing listA ++ listB on the start root leaves,
\* and the errors of the concatenated run are those of listA followed by
\* those of listB; the statement-by-statement run agrees with both.
C2_ExecuteConcat ==
    LET ra == Execute(listA, root0)
        rb == Execute(listB, ra.node)
        rc == Execute(listA \o listB, root0)
    IN /\ rc.node = rb.node
       /\ rc.errs = ra.errs \o rb.errs
       /\ root = rc.node
       /\ errors = rc.errs

\* C2 witness: both lists push errors, and listB run on the start root
\* gives another tree than listB run after listA.
C2_Witness ==
    LET ra == Execute(listA, root0)
        rb == Execute(listB, ra.node)
    IN /\ ra.errs # <<>>
       /\ rb.errs # <<>>
       /\ ra.node # root0
       /\ rb.node # Execute(listB, root0).node
       /\ root = rb.node

---------------------------------------------------------------------------
(* parser.rs: the recursive-descent parser.  The input is a sequence of     *)
(* characters and `pos` the 0-based offset of the next one.  A parsing      *)
(* function returns POk(pos, val), the position after what it consumed and  *)
(* the value parsed, or PErr(message).  Error spans are not modelled.       *)
(* Quoted strings, heredocs, backtick names and escapes are not modelled:   *)
(* inputs hold none of the characters that start them.                      *)

POk(pos, val) == [ok |-> TRUE, pos |-> pos, val |-> val]

PErr(message) == [ok |-> FALSE, err |-> SyntaxError(message)]

\* peek_char() = None
NoChar == "EOF"

PeekChar(inp, pos) == IF pos < Len(inp) THEN inp[pos + 1] ELSE NoChar

StartsWith(inp, pos, s) ==
    /\ pos + Len(s) <= Len(inp)
    /\ SubSeq(inp, pos + 1, pos + Len(s)) = s

\* &self.input[from..to]
Slice(inp, from, to) == SubSeq(inp, from + 1, to)

AsciiDigits == {"0", "1", "2", "3", "4", "5", "6", "7", "8", "9"}

AsciiLetters ==
    {"a", "b", "c", "d", "e", "f", "g", "h", "i", "j", "k", "l", "m",
     "n", "o", "p", "q", "r", "s", "t", "u", "v", "w", "x", "y", "z",
     "A", "B", "C", "D", "E", "F", "G", "H", "I", "J", "K", "L", "M",
     "N", "O", "P", "Q", "R", "S", "T", "U", "V", "W", "X", "Y", "Z"}

IsAsciiDigit(ch) == ch \in AsciiDigits

\* is_bare_char, on ASCII
IsBareChar(ch) == ch \in AsciiLetters \cup AsciiDigits \cup {"_"}

IsBareCharAt(inp, pos, offset) == IsBareChar(PeekChar(inp, pos + offset))

\* the comment loop of skip_ws: up to the end of the line
RECURSIVE SkipComment(_, _)
SkipComment(inp, pos) ==
    IF PeekChar(inp, pos) \in {NoChar, "\r", "\n"} THEN pos
    ELSE SkipComment(inp, pos + 1)

RECURSIVE SkipWs(_, _)
SkipWs(inp, pos) ==
    LET ch == PeekChar(inp, pos)
    IN IF ch \in {" ", "\t", "\r", "\n"} THEN SkipWs(inp, pos + 1)
       ELSE IF ch = "#" THEN SkipWs(inp, SkipComment(inp, pos))
       ELSE pos

\* the comma loop of skip_ws_and_commas
RECURSIVE SkipCommas(_, _)
SkipCommas(inp, pos) ==
    IF PeekChar(inp, pos) = "," THEN SkipCommas(inp, SkipWs(inp, pos + 1))
    ELSE pos

SkipWsAndCommas(inp, pos) == SkipCommas(inp, SkipWs(inp, pos))

\* `while let Some(ch) = peek_char() { if ch.is_ascii_digit() advance }`
RECURSIVE SkipDigits(_, _)
SkipDigits(inp, pos) ==
    IF IsAsciiDigit(PeekChar(inp, pos)) THEN SkipDigits(inp, pos + 1) ELSE pos

\* the same loop over is_bare_char
RECURSIVE SkipBare(_, _)
SkipBare(inp, pos) ==
    IF IsBareChar(PeekChar(inp, pos)) THEN SkipBare(inp, pos + 1) ELSE pos

\* the bare string from pos to `stop`, where the loop over is_bare_char ended
BareStringTo(inp, pos, stop) ==
    IF stop = pos THEN PErr("Expected an identifier")
    ELSE POk(stop, Slice(inp, pos, stop))

ParseBareString(inp, pos) == BareStringTo(inp, pos, SkipBare(inp, pos))

\* U+0008 and U+000C, as characters of the model
Backspace == "BS"
FormFeed == "FF"

HexDigits ==
    AsciiDigits \cup {"a", "b", "c", "d", "e", "f", "A", "B", "C", "D", "E", "F"}

HexDigitValue(ch) ==
    CASE ch \in AsciiDigits -> CharCode(ch) - 48
      [] ch \in {"a", "A"} -> 10 [] ch \in {"b", "B"} -> 11
      [] ch \in {"c", "C"} -> 12 [] ch \in {"d", "D"} -> 13
      [] ch \in {"e", "E"} -> 14 [] ch \in {"f", "F"} -> 15

\* u32::from_str_radix(hex, 16)
RECURSIVE HexValue(_)
HexValue(hex) ==
    IF hex = <<>> THEN 0
    ELSE 16 * HexValue(Front(hex)) + HexDigitValue(Last(hex))

\* the code points char::from_u32 has no char for, below 0x10000
IsSurrogate(code_point) == code_point \in 55296..57343

\* the characters CharCode knows
KnownChars ==
    {" ", "$", ",", "-", ".", "0", "1", "2", "3", "4", "5", "6", "7", "8", "9",
     ":", "=", "@", "[", "]", "^", "_", "BQ", "a", "b", "c", "d", "e", "h", "i",
     "n", "o", "p", "q", "x", "y", "z", "{", "}"}

\* the char of a code point that is no surrogate
CharFromU32(code_point) ==
    IF \E c \in KnownChars : CharCode(c) = code_point
    THEN CHOOSE c \in KnownChars : CharCode(c) = code_point
    ELSE "U+" \o ToString(code_point)

\* the `u` arm of parse_escape_char, from after the `u`
ParseUnicodeEscape(inp, start) ==
    IF \E k \in 0..3 : PeekChar(inp, start + k) \notin HexDigits
    THEN PErr("Expected 4 hex digits in \\uXXXX")
    ELSE IF IsSurrogate(HexValue(Slice(inp, start, start + 4)))
    THEN PErr("Invalid unicode code point")
    ELSE POk(start + 4, <<CharFromU32(HexValue(Slice(inp, start, start + 4)))>>)

\* parse_escape_char, from after the backslash
ParseEscapeChar(inp, pos) ==
    CASE PeekChar(inp, pos) = NoChar -> PErr("Unterminated escape sequence")
      [] PeekChar(inp, pos) = "b" -> POk(pos + 1, <<Backspace>>)
      [] PeekChar(inp, pos) = "f" -> POk(pos + 1, <<FormFeed>>)
      [] PeekChar(inp, pos) = "n" -> POk(pos + 1, <<"\n">>)
      [] PeekChar(inp, pos) = "r" -> POk(pos + 1, <<"\r">>)
      [] PeekChar(inp, pos) = "t" -> POk(pos + 1, <<"\t">>)
      [] PeekChar(inp, pos) = "u" -> ParseUnicodeEscape(inp, pos + 1)
      [] OTHER -> POk(pos + 1, <<PeekChar(inp, pos)>>)

RECURSIVE ParseQuotedBody(_, _, _, _, _)

\* the character at pos pushed as it is: `result.push(ch); advance`
PlainChar(inp, pos) == POk(pos + 1, <<PeekChar(inp, pos)>>)

\* result.push_str(&parse_escape_char()?) or result.push(ch), then the loop
\* again
PushEscape(inp, piece, quote, message, result) ==
    IF piece.ok
    THEN ParseQuotedBody(inp, piece.pos, quote, message, result \o piece.val)
    ELSE piece

\* the loop of parse_double_quoted_string and parse_backtick_string, which
\* differ in the delimiter and the message
ParseQuotedBody(inp, pos, quote, message, result) ==
    IF PeekChar(inp, pos) \in {NoChar, "\r", "\n"} THEN PErr(message)
    ELSE IF PeekChar(inp, pos) = quote THEN POk(pos + 1, result)
    ELSE PushEscape(inp,
                    IF PeekChar(inp, pos) = "\\"
                    THEN ParseEscapeChar(inp, pos + 1)
                    ELSE PlainChar(inp, pos),
                    quote, message, result)

ParseDoubleQuotedString(inp, pos) ==
    IF PeekChar(inp, pos) # "\"" THEN PErr("Expected '\"'")
    ELSE ParseQuotedBody(inp, pos + 1, "\"", "Unterminated string", <<>>)

ParseBacktickString(inp, pos) ==
    IF PeekChar(inp, pos) # "BQ" THEN PErr("Expected '`'")
    ELSE ParseQuotedBody(inp, pos + 1, "BQ", "Unterminated backtick string", <<>>)

TripleQuote == <<"\"", "\"", "\"">>

RECURSIVE ParseTripleBody(_, _, _)

PushTripleEscape(inp, piece, result) ==
    IF piece.ok THEN ParseTripleBody(inp, piece.pos, result \o piece.val)
    ELSE piece

\* the loop of parse_triple_string
ParseTripleBody(inp, pos, result) ==
    IF StartsWith(inp, pos, TripleQuote) THEN POk(pos + 3, result)
    ELSE IF PeekChar(inp, pos) = NoChar THEN PErr("Unterminated triple-quoted string")
    ELSE PushTripleEscape(inp,
                          IF PeekChar(inp, pos) = "\\"
                          THEN ParseEscapeChar(inp, pos + 1)
                          ELSE PlainChar(inp, pos),
                          result)

ParseTripleString(inp, pos) ==
    IF ~StartsWith(inp, pos, TripleQuote) THEN PErr("Expected triple-quoted string")
    ELSE ParseTripleBody(inp, pos + 3, <<>>)

\* the characters one turn of a raw string's loop takes: a backslash and the
\* character after it, or one character
RawWidth(inp, pos) == IF PeekChar(inp, pos) = "\\" THEN 2 ELSE 1

\* the loop of parse_single_quoted_string: a backslash is kept and pairs
\* with the next character
RECURSIVE ParseSingleBody(_, _, _)
ParseSingleBody(inp, pos, result) ==
    IF PeekChar(inp, pos) \in {NoChar, "\r", "\n"} THEN PErr("Unterminated string")
    ELSE IF PeekChar(inp, pos) = "'" THEN POk(pos + 1, result)
    ELSE IF PeekChar(inp, pos) = "\\" /\ PeekChar(inp, pos + 1) \in {NoChar, "\r", "\n"}
    THEN PErr("Unterminated string")
    ELSE ParseSingleBody(inp, pos + RawWidth(inp, pos),
                         result \o Slice(inp, pos, pos + RawWidth(inp, pos)))

ParseSingleQuotedString(inp, pos) ==
    IF PeekChar(inp, pos) # "'" THEN PErr("Expected '''")
    ELSE ParseSingleBody(inp, pos + 1, <<>>)

TripleSingle == <<"'", "'", "'">>

\* the loop of parse_triple_single_quoted_string
RECURSIVE ParseTripleSingleBody(_, _, _)
ParseTripleSingleBody(inp, pos, result) ==
    IF StartsWith(inp, pos, TripleSingle) THEN POk(pos + 3, result)
    ELSE IF PeekChar(inp, pos) = NoChar
    THEN PErr("Unterminated triple-single-quoted string")
    ELSE IF PeekChar(inp, pos) = "\\" /\ PeekChar(inp, pos + 1) = NoChar
    THEN PErr("Unterminated triple-single-quoted string")
    ELSE ParseTripleSingleBody(inp, pos + RawWidth(inp, pos),
                               result \o Slice(inp, pos, pos + RawWidth(inp, pos)))

ParseTripleSingleQuotedString(inp, pos) ==
    IF ~StartsWith(inp, pos, TripleSingle) THEN PErr("Expected triple-single-quoted string")
    ELSE ParseTripleSingleBody(inp, pos + 3, <<>>)

\* char::is_whitespace, on the characters of the model
WhiteSpace == {" ", "\t", "\r", "\n"}

RECURSIVE TrimStart(_)
TrimStart(s) ==
    IF s # <<>> /\ s[1] \in WhiteSpace THEN TrimStart(Tail(s)) ELSE s

RECURSIVE TrimEnd(_)
TrimEnd(s) ==
    IF s # <<>> /\ Last(s) \in WhiteSpace THEN TrimEnd(Front(s)) ELSE s

Trim(s) == TrimEnd(TrimStart(s))

\* the spaces and tabs after `<<<`
RECURSIVE SkipBlanks(_, _)
SkipBlanks(inp, pos) ==
    IF PeekChar(inp, pos) \in {" ", "\t"} THEN SkipBlanks(inp, pos + 1) ELSE pos

\* the end of the line that starts at pos: the offset of its `\n`, or the
\* length of the input
RECURSIVE LineEnd(_, _)
LineEnd(inp, pos) ==
    IF pos >= Len(inp) \/ PeekChar(inp, pos) = "\n" THEN pos ELSE LineEnd(inp, pos + 1)

\* the line from line_start, without a trailing `\r`
HeredocLine(inp, line_start) ==
    IF /\ LineEnd(inp, line_start) > line_start
       /\ inp[LineEnd(inp, line_start)] = "\r"
    THEN Slice(inp, line_start, LineEnd(inp, line_start) - 1)
    ELSE Slice(inp, line_start, LineEnd(inp, line_start))

\* the offset after the line that starts at line_start and its `\n`
AfterLine(inp, line_start) ==
    IF PeekChar(inp, LineEnd(inp, line_start)) = "\n"
    THEN LineEnd(inp, line_start) + 1
    ELSE LineEnd(inp, line_start)

\* the indentation of the first line that holds a non-space character
RECURSIVE StripAmount(_)
StripAmount(lines) ==
    IF lines = <<>> THEN 0
    ELSE IF TrimStart(lines[1]) # <<>> THEN Len(lines[1]) - Len(TrimStart(lines[1]))
    ELSE StripAmount(Tail(lines))

StripLine(line, strip) ==
    IF TrimStart(line) = <<>> THEN <<>>
    ELSE IF strip <= Len(line) THEN SubSeq(line, strip + 1, Len(line))
    ELSE line

\* the lines from i on, stripped and joined by `\n`
RECURSIVE JoinStripped(_, _, _)
JoinStripped(lines, i, strip) ==
    IF i > Len(lines) THEN <<>>
    ELSE (IF i > 1 THEN <<"\n">> ELSE <<>>)
             \o StripLine(lines[i], strip) \o JoinStripped(lines, i + 1, strip)

HeredocText(lines) ==
    IF lines = <<>> THEN <<>>
    ELSE JoinStripped(lines, 1, StripAmount(lines)) \o <<"\n">>

\* the line loop of parse_heredoc
RECURSIVE HeredocLines(_, _, _)
HeredocLines(inp, pos, lines) ==
    IF pos >= Len(inp) THEN PErr("Unterminated heredoc (expected >>>)")
    ELSE IF Trim(HeredocLine(inp, pos)) = <<">", ">", ">">>
    THEN POk(AfterLine(inp, pos), HeredocText(lines))
    ELSE HeredocLines(inp, AfterLine(inp, pos), Append(lines, HeredocLine(inp, pos)))

\* the `\n` after `<<<`, with an optional `\r` before it
HeredocBody(inp, pos) ==
    IF PeekChar(inp, pos) = "\n" THEN HeredocLines(inp, pos + 1, <<>>)
    ELSE PErr("Expected newline after <<<")

\* parse_heredoc, at `<<<`
ParseHeredoc(inp, pos) ==
    HeredocBody(inp, IF PeekChar(inp, SkipBlanks(inp, pos + 3)) = "\r"
                     THEN SkipBlanks(inp, pos + 3) + 1
                     ELSE SkipBlanks(inp, pos + 3))

\* .map(|s| TagValue::Scalar(ScalarValue::String(s)))
StringValue(r) == IF r.ok THEN POk(r.pos, VString(r.val)) ELSE r

\* parse_identifier
ParseIdentifier(inp, pos) ==
    IF PeekChar(inp, pos) = "BQ" THEN ParseBacktickString(inp, pos)
    ELSE ParseBareString(inp, pos)

RECURSIVE ParsePropNameRest(_, _, _)

\* parts.push(parse_identifier()?), then the `.` loop of parse_prop_name
PushPart(inp, name, path) ==
    IF ~name.ok THEN name
    ELSE IF PeekChar(inp, name.pos) = "."
    THEN ParsePropNameRest(inp, name.pos + 1, Append(path, name.val))
    ELSE POk(name.pos, Append(path, name.val))

\* parse_prop_name from the start of a name, `path` the names so far
ParsePropNameRest(inp, pos, path) ==
    PushPart(inp, ParseIdentifier(inp, pos), path)

ParsePropName(inp, pos) == ParsePropNameRest(inp, pos, <<>>)

ExpectChar(inp, pos, ch, message) ==
    IF PeekChar(inp, pos) = ch THEN POk(pos + 1, TRUE) ELSE PErr(message)

RECURSIVE ConsumeDigits(_, _, _)
ConsumeDigits(inp, pos, count) ==
    IF count = 0 THEN POk(pos, TRUE)
    ELSE IF IsAsciiDigit(PeekChar(inp, pos))
    THEN ConsumeDigits(inp, pos + 1, count - 1)
    ELSE PErr("Expected digit")

\* the value of a digit string
RECURSIVE DigitsValue(_)
DigitsValue(digits) ==
    IF digits = <<>> THEN 0
    ELSE 10 * DigitsValue(Front(digits)) + (CharCode(Last(digits)) - 48)

\* the first index of s holding a character of `chars`, Len(s) + 1 if none
FirstIndexOf(s, chars) ==
    IF \E i \in 1..Len(s) : s[i] \in chars
    THEN CHOOSE i \in 1..Len(s) :
             /\ s[i] \in chars
             /\ \A j \in 1..(i - 1) : s[j] \notin chars
    ELSE Len(s) + 1

\* str::parse::<f64>() on [-]digits[.digits][(e|E)[+|-]digits], the only
\* strings the number parsers hand to it; it does not fail on them
F64FromStr(str) ==
    LET neg == str[1] = "-"
        body == IF neg THEN Tail(str) ELSE str
        e == FirstIndexOf(body, {"e", "E"})
        mantissa == SubSeq(body, 1, e - 1)
        exponent == SubSeq(body, e + 1, Len(body))
        dot == FirstIndexOf(mantissa, {"."})
        int_digits == SubSeq(mantissa, 1, dot - 1)
        frac_digits == SubSeq(mantissa, dot + 1, Len(mantissa))
        exp_neg == exponent # <<>> /\ exponent[1] = "-"
        exp_digits == IF exponent # <<>> /\ exponent[1] \in {"+", "-"}
                      THEN Tail(exponent) ELSE exponent
        exp_value == IF exp_neg THEN 0 - DigitsValue(exp_digits)
                     ELSE DigitsValue(exp_digits)
        magnitude == DigitsValue(int_digits \o frac_digits)
    IN Dec(IF neg THEN 0 - magnitude ELSE magnitude,
           exp_value - Len(frac_digits))

\* parse_bare_string().map(|s| TagValue::Scalar(ScalarValue::String(s)))
BareStringValue(inp, pos) == StringValue(ParseBareString(inp, pos))

\* the digits of the exponent, from exp_start
ExponentDigits(inp, exp_start) ==
    IF SkipDigits(inp, exp_start) = exp_start
    THEN PErr("Expected exponent digits")
    ELSE POk(SkipDigits(inp, exp_start), TRUE)

\* the exponent part of a number
ParseExponent(inp, pos) ==
    IF PeekChar(inp, pos) \in {"e", "E"}
    THEN ExponentDigits(inp, IF PeekChar(inp, pos + 1) \in {"+", "-"}
                             THEN pos + 2 ELSE pos + 1)
    ELSE POk(pos, TRUE)

\* full_str.parse() of the text from start to the end of the exponent `e`
NumberValue(inp, start, e) ==
    IF e.ok THEN POk(e.pos, VNumber(F64FromStr(Slice(inp, start, e.pos))))
    ELSE e

\* parse_integer_or_bare with the digits skipped, from digit_start to pos
IntegerFromDigits(inp, start, has_minus, digit_start, pos) ==
    IF pos = digit_start
    THEN IF has_minus THEN PErr("Expected a value")
         ELSE BareStringValue(inp, start)
    ELSE IF /\ ~has_minus
            /\ IsBareChar(PeekChar(inp, pos))
            /\ ~IsAsciiDigit(PeekChar(inp, pos))
    THEN BareStringValue(inp, start)
    ELSE NumberValue(inp, start, ParseExponent(inp, pos))

ParseIntegerOrBare(inp, start, has_minus) ==
    IntegerFromDigits(inp, start, has_minus,
                      IF has_minus THEN start + 1 ELSE start,
                      SkipDigits(inp, IF has_minus THEN start + 1 ELSE start))

\* parse_number_or_string after the exponent `e`: a bare character after the
\* number makes it a bare string
NumberOrBare(inp, start, has_minus, e) ==
    IF ~e.ok THEN e
    ELSE IF /\ IsBareChar(PeekChar(inp, e.pos))
            /\ ~IsAsciiDigit(PeekChar(inp, e.pos))
    THEN IF has_minus THEN PErr("Expected a value")
         ELSE BareStringValue(inp, start)
    ELSE NumberValue(inp, start, e)

\* parse_number_or_string with the integer and the fraction digits skipped
NumberFromFraction(inp, start, has_minus, has_int_digits, has_dot,
                   frac_start, frac_end) ==
    IF has_dot /\ frac_end = frac_start
    THEN ParseIntegerOrBare(inp, start, has_minus)
    ELSE IF ~has_int_digits /\ ~has_dot
    THEN IF has_minus THEN PErr("Expected a value")
         ELSE BareStringValue(inp, start)
    ELSE NumberOrBare(inp, start, has_minus, ParseExponent(inp, frac_end))

\* parse_number_or_string with the integer digits skipped, up to int_end
NumberFromInteger(inp, start, has_minus, digit_start, int_end) ==
    NumberFromFraction(inp, start, has_minus, int_end > digit_start,
                       PeekChar(inp, int_end) = ".", int_end + 1,
                       IF PeekChar(inp, int_end) = "."
                       THEN SkipDigits(inp, int_end + 1) ELSE int_end)

\* parse_number_or_string after the optional `-`
NumberFromSign(inp, start, has_minus, digit_start) ==
    NumberFromInteger(inp, start, has_minus, digit_start,
                      SkipDigits(inp, digit_start))

ParseNumberOrString(inp, start) ==
    NumberFromSign(inp, start, PeekChar(inp, start) = "-",
                   IF PeekChar(inp, start) = "-" THEN start + 1 ELSE start)

(* The steps of parse_date: each takes the result of the step before it,   *)
(* goes on from the position reached, or passes the error on (`?`).        *)

\* consume_digits(count)?
ThenDigits(inp, prev, count) ==
    IF prev.ok THEN ConsumeDigits(inp, prev.pos, count) ELSE prev

\* expect_char(ch)?
ThenChar(inp, prev, ch, message) ==
    IF prev.ok THEN ExpectChar(inp, prev.pos, ch, message) ELSE prev

\* Optional .fractional, after the seconds
ThenFraction(inp, ss) ==
    IF ss.ok /\ PeekChar(inp, ss.pos) = "."
    THEN IF SkipDigits(inp, ss.pos + 1) = ss.pos + 1
         THEN PErr("Expected fractional digits in date")
         ELSE POk(SkipDigits(inp, ss.pos + 1), TRUE)
    ELSE ss

\* Optional :SS, after the minutes
ThenSeconds(inp, hm) ==
    IF hm.ok /\ PeekChar(inp, hm.pos) = ":"
    THEN ThenFraction(inp, ConsumeDigits(inp, hm.pos + 1, 2))
    ELSE hm

\* the minutes of the timezone, after an optional `:`
ZoneMinutes(inp, tz_hh) ==
    IF tz_hh.ok
    THEN ConsumeDigits(inp,
                       IF PeekChar(inp, tz_hh.pos) = ":"
                       THEN tz_hh.pos + 1 ELSE tz_hh.pos,
                       2)
    ELSE tz_hh

\* Optional timezone: Z or +/-HH:MM or +/-HHMM
ThenTimeZone(inp, frac) ==
    IF ~frac.ok THEN frac
    ELSE IF PeekChar(inp, frac.pos) = "Z" THEN POk(frac.pos + 1, TRUE)
    ELSE IF PeekChar(inp, frac.pos) \in {"+", "-"}
    THEN ZoneMinutes(inp, ConsumeDigits(inp, frac.pos + 1, 2))
    ELSE frac

\* the time part of parse_date, from after the `T`
ParseDateTime(inp, pos) ==
    ThenTimeZone(inp,
        ThenSeconds(inp,
            ThenDigits(inp,
                ThenChar(inp, ConsumeDigits(inp, pos, 2), ":", "Expected ':'"),
                2)))

\* Optional time part, after YYYY-MM-DD
ThenTime(inp, ymd) ==
    IF ymd.ok /\ PeekChar(inp, ymd.pos) = "T"
    THEN ParseDateTime(inp, ymd.pos + 1)
    ELSE ymd

\* ScalarValue::Date(input[start..pos])
DateValue(inp, start, time) ==
    IF time.ok THEN POk(time.pos, VDate(Slice(inp, start, time.pos)))
    ELSE time

ParseDate(inp, start) ==
    DateValue(inp, start,
        ThenTime(inp,
            ThenDigits(inp,
                ThenChar(inp,
                    ThenDigits(inp,
                        ThenChar(inp, ConsumeDigits(inp, start, 4),
                                 "-", "Expected '-'"),
                        2),
                    "-", "Expected '-'"),
                2)))

\* ScalarValue::Env { name }
EnvValue(name) == IF name.ok THEN POk(name.pos, VEnv(name.val)) ELSE name

\* parse_at_value from after the `@`
ParseAtValueFrom(inp, pos) ==
    IF /\ StartsWith(inp, pos, <<"t", "r", "u", "e">>)
       /\ ~IsBareCharAt(inp, pos, 4)
    THEN POk(pos + 4, VBoolean(TRUE))
    ELSE IF /\ StartsWith(inp, pos, <<"f", "a", "l", "s", "e">>)
            /\ ~IsBareCharAt(inp, pos, 5)
    THEN POk(pos + 5, VBoolean(FALSE))
    ELSE IF /\ StartsWith(inp, pos, <<"n", "o", "n", "e">>)
            /\ ~IsBareCharAt(inp, pos, 4)
    THEN POk(pos + 4, VNone)
    ELSE IF StartsWith(inp, pos, <<"e", "n", "v", ".">>)
    THEN EnvValue(ParseBareString(inp, pos + 4))
    ELSE IF IsAsciiDigit(PeekChar(inp, pos)) THEN ParseDate(inp, pos)
    ELSE PErr("Illegal constant")

ParseAtValue(inp, begin) ==
    IF PeekChar(inp, begin) # "@" THEN PErr("Expected '@'")
    ELSE ParseAtValueFrom(inp, begin + 1)

\* the index from start to pos, where the digits ended
RefIndexTo(inp, start, pos) ==
    IF pos = start THEN PErr("Expected array index")
    ELSE POk(pos, DigitsValue(Slice(inp, start, pos)))

\* parse_ref_index (indices beyond usize are not modelled)
ParseRefIndex(inp, start) == RefIndexTo(inp, start, SkipDigits(inp, start))

\* the `]` after the index and the whitespace
IndexedName(inp, name, idx) ==
    IF ~idx.ok THEN idx
    ELSE IF PeekChar(inp, SkipWs(inp, idx.pos)) = "]"
    THEN POk(SkipWs(inp, idx.pos) + 1, <<SegName(name), SegIndex(idx.val)>>)
    ELSE PErr("Expected ']'")

\* after the name of a segment: at most one `[N]`
NamedSegment(inp, name) ==
    IF ~name.ok THEN name
    ELSE IF PeekChar(inp, name.pos) = "["
    THEN IndexedName(inp, name.val,
                     ParseRefIndex(inp, SkipWs(inp, name.pos + 1)))
    ELSE POk(name.pos, <<SegName(name.val)>>)

\* one step of parse_reference: a name and at most one `[N]` after it
ParseRefSegment(inp, pos) == NamedSegment(inp, ParseIdentifier(inp, pos))

RECURSIVE ParseRefRest(_, _, _)

\* path.extend(segment), then the `.` loop of parse_reference
PushSegment(inp, seg, path) ==
    IF ~seg.ok THEN seg
    ELSE IF PeekChar(inp, seg.pos) = "."
    THEN ParseRefRest(inp, seg.pos + 1, path \o seg.val)
    ELSE POk(seg.pos, path \o seg.val)

\* parse_reference from the start of a segment, `path` the segments so far
ParseRefRest(inp, pos, path) ==
    PushSegment(inp, ParseRefSegment(inp, pos), path)

\* the `^` loop of parse_reference
RECURSIVE SkipCarets(_, _)
SkipCarets(inp, pos) ==
    IF PeekChar(inp, pos) = "^" THEN SkipCarets(inp, pos + 1) ELSE pos

\* TagValue::Scalar(ScalarValue::Reference { ups, path })
ReferenceOf(ups, all) ==
    IF all.ok THEN POk(all.pos, VReference(ups, all.val)) ELSE all

ParseReference(inp, begin) ==
    IF PeekChar(inp, begin) # "$" THEN PErr("Expected '$'")
    ELSE ReferenceOf(SkipCarets(inp, begin + 1) - (begin + 1),
                     ParseRefRest(inp, SkipCarets(inp, begin + 1), <<>>))

RECURSIVE ParseStatement(_, _)
RECURSIVE ParsePropertiesBlock(_, _)
RECURSIVE ParseBlockRest(_, _, _)
RECURSIVE ParseEqValue(_, _, _)
RECURSIVE ParseArray(_, _)
RECURSIVE ParseArrayRest(_, _, _)
RECURSIVE ParseArrayElement(_, _)

(* A step that may fail is followed by an operator that takes its result:  *)
(* it goes on from the position reached, or passes the error on (`?`).     *)

\* Some(parse_properties_block()?) as [has, stmts]
SomeBlock(block) ==
    IF block.ok THEN POk(block.pos, [has |-> TRUE, stmts |-> block.val])
    ELSE block

\* the optional `{ statements }` after a value: [has, stmts]
ParseOptionalBlock(inp, pos) ==
    IF PeekChar(inp, pos) = "{" THEN SomeBlock(ParsePropertiesBlock(inp, pos))
    ELSE POk(pos, [has |-> FALSE, stmts |-> NoProps])

\* parse_array().map(TagValue::Array)
ArrayValue(arr) == IF arr.ok THEN POk(arr.pos, VArray(arr.val)) ELSE arr

\* parse_eq_value
ParseEqValue(inp, pos, allow_arrays) ==
    IF StartsWith(inp, pos, <<"<", "<", "<">>) THEN StringValue(ParseHeredoc(inp, pos))
    ELSE
        IF PeekChar(inp, pos) = "[" /\ allow_arrays
        THEN ArrayValue(ParseArray(inp, pos))
        ELSE IF PeekChar(inp, pos) = "@" THEN ParseAtValue(inp, pos)
        ELSE IF PeekChar(inp, pos) = "$" THEN ParseReference(inp, pos)
        ELSE IF PeekChar(inp, pos) = "\""
        THEN StringValue(IF StartsWith(inp, pos, TripleQuote)
                         THEN ParseTripleString(inp, pos)
                         ELSE ParseDoubleQuotedString(inp, pos))
        ELSE IF PeekChar(inp, pos) = "'"
        THEN StringValue(IF StartsWith(inp, pos, TripleSingle)
                         THEN ParseTripleSingleQuotedString(inp, pos)
                         ELSE ParseSingleQuotedString(inp, pos))
        ELSE IF \/ PeekChar(inp, pos) = "-"
                \/ IsAsciiDigit(PeekChar(inp, pos))
                \/ PeekChar(inp, pos) = "."
        THEN ParseNumberOrString(inp, pos)
        ELSE IF IsBareChar(PeekChar(inp, pos)) THEN BareStringValue(inp, pos)
        ELSE PErr("Expected a value")

\* elements.push(parse_array_element()?), then the loop of parse_array
PushElement(inp, el, elements) ==
    IF el.ok THEN ParseArrayRest(inp, el.pos, Append(elements, el.val))
    ELSE el

\* after the `[` or a `,`, and the whitespace: the closing bracket (also
\* after a trailing comma), or one more element
ParseArrayNext(inp, pos, elements) ==
    IF PeekChar(inp, pos) = "]" THEN POk(pos + 1, elements)
    ELSE PushElement(inp, ParseArrayElement(inp, pos), elements)

ParseArray(inp, begin) ==
    IF PeekChar(inp, begin) # "[" THEN PErr("Expected '['")
    ELSE ParseArrayNext(inp, SkipWs(inp, begin + 1), <<>>)

\* one turn of the loop of parse_array, after its skip_ws
ParseArrayTurn(inp, pos, elements) ==
    IF PeekChar(inp, pos) = "]" THEN POk(pos + 1, elements)
    ELSE IF PeekChar(inp, pos) = ","
    THEN ParseArrayNext(inp, SkipWs(inp, pos + 1), elements)
    ELSE IF pos >= Len(inp) THEN PErr("Unclosed '['")
    ELSE PErr("Expected ',' or ']' in array")

\* the loop of parse_array, `elements` the elements so far
ParseArrayRest(inp, pos, elements) ==
    ParseArrayTurn(inp, SkipWs(inp, pos), elements)

\* ArrayElement { value: None, properties: Some(props) }
ElementOfBlock(props) ==
    IF props.ok
    THEN POk(props.pos, ArrayElement(FALSE, VNone, TRUE, props.val))
    ELSE props

\* ArrayElement { value: Some(TagValue::Array(elements)), properties: None }
ElementOfArray(elements) ==
    IF elements.ok
    THEN POk(elements.pos,
             ArrayElement(TRUE, VArray(elements.val), FALSE, NoProps))
    ELSE elements

\* ArrayElement { value: Some(value), properties }
ElementWithBlock(value, block) ==
    IF block.ok
    THEN POk(block.pos,
             ArrayElement(TRUE, value, block.val.has, block.val.stmts))
    ELSE block

ElementWithValue(inp, value) ==
    IF value.ok
    THEN ElementWithBlock(value.val,
                          ParseOptionalBlock(inp, SkipWs(inp, value.pos)))
    ELSE value

\* parse_array_element after its skip_ws
ParseArrayElementAt(inp, pos) ==
    IF PeekChar(inp, pos) = "{"
    THEN ElementOfBlock(ParsePropertiesBlock(inp, pos))
    ELSE IF PeekChar(inp, pos) = "["
    THEN ElementOfArray(ParseArray(inp, pos))
    ELSE ElementWithValue(inp, ParseEqValue(inp, pos, FALSE))

ParseArrayElement(inp, pos) == ParseArrayElementAt(inp, SkipWs(inp, pos))

ParsePropertiesBlock(inp, begin) ==
    IF PeekChar(inp, begin) # "{" THEN PErr("Expected '{'")
    ELSE ParseBlockRest(inp, SkipWs(inp, begin + 1), <<>>)

\* stmts.push(parse_statement()?), then the loop again
PushBlockStatement(inp, stmt, stmts) ==
    IF stmt.ok THEN ParseBlockRest(inp, stmt.pos, Append(stmts, stmt.val))
    ELSE stmt

\* one turn of the loop of parse_properties_block, after its
\* skip_ws_and_commas
ParseBlockTurn(inp, pos, stmts) ==
    IF PeekChar(inp, pos) = "}" THEN POk(pos + 1, stmts)
    ELSE IF pos >= Len(inp) THEN PErr("Unclosed '{'")
    ELSE PushBlockStatement(inp, ParseStatement(inp, pos), stmts)

\* the loop of parse_properties_block, `stmts` the statements so far
ParseBlockRest(inp, pos, stmts) ==
    ParseBlockTurn(inp, SkipWsAndCommas(inp, pos), stmts)

\* Statement::Define { path, deleted: true }
DefineDeleted(path) ==
    IF path.ok THEN POk(path.pos, Define(path.val, TRUE)) ELSE path

\* Statement::AssignBoth / Statement::SetEq { path, value, properties }
StatementWithBlock(kind, path, value, block) ==
    IF block.ok
    THEN POk(block.pos,
             [kind |-> kind, path |-> path, value |-> value,
              hasProps |-> block.val.has, properties |-> block.val.stmts])
    ELSE block

StatementWithValue(inp, kind, path, value) ==
    IF value.ok
    THEN StatementWithBlock(kind, path, value.val,
                            ParseOptionalBlock(inp, SkipWs(inp, value.pos)))
    ELSE value

\* Statement::ReplaceProperties { path, properties }
ReplaceWithBlock(path, props) ==
    IF props.ok THEN POk(props.pos, ReplaceProperties(path, props.val))
    ELSE props

\* Statement::UpdateProperties { path, properties }
UpdateWithBlock(path, props) ==
    IF props.ok THEN POk(props.pos, UpdateProperties(path, props.val))
    ELSE props

\* parse_statement after the `=` and the whitespace
ParseAfterEq(inp, path, pos) ==
    IF PeekChar(inp, pos) = "{" THEN PErr("Expected a value after '='")
    ELSE StatementWithValue(inp, "SetEq", path, ParseEqValue(inp, pos, TRUE))

\* parse_statement after the path and the whitespace
ParseAfterPath(inp, path, pos) ==
    IF StartsWith(inp, pos, <<":", "=">>)
    THEN StatementWithValue(inp, "AssignBoth", path,
                            ParseEqValue(inp, SkipWs(inp, pos + 2), TRUE))
    ELSE IF PeekChar(inp, pos) = "="
    THEN ParseAfterEq(inp, path, SkipWs(inp, pos + 1))
    ELSE IF PeekChar(inp, pos) = ":"
    THEN ReplaceWithBlock(path, ParsePropertiesBlock(inp, SkipWs(inp, pos + 1)))
    ELSE IF PeekChar(inp, pos) = "{"
    THEN UpdateWithBlock(path, ParsePropertiesBlock(inp, pos))
    ELSE POk(pos, Define(path, FALSE))

\* let path = self.parse_prop_name()?; self.skip_ws(); ...
StatementWithPath(inp, path) ==
    IF path.ok THEN ParseAfterPath(inp, path.val, SkipWs(inp, path.pos))
    ELSE path

ParseStatement(inp, begin) ==
    IF StartsWith(inp, begin, <<"-", ".", ".", ".">>)
    THEN POk(begin + 4, ClearAll)
    ELSE IF PeekChar(inp, begin) = "-"
    THEN DefineDeleted(ParsePropName(inp, begin + 1))
    ELSE StatementWithPath(inp, ParsePropName(inp, begin))

\* mutant of parse: returns after the first statement, whatever follows it
FirstStatement(stmt) == IF stmt.ok THEN POk(stmt.pos, <<stmt.val>>) ELSE stmt

ParseFirstOnly(inp) ==
    IF SkipWsAndCommas(inp, 0) < Len(inp)
    THEN FirstStatement(ParseStatement(inp, SkipWsAndCommas(inp, 0)))
    ELSE POk(SkipWsAndCommas(inp, 0), <<>>)

\* the loop of parse, `statements` the statements so far
RECURSIVE ParseRest(_, _, _)

\* statements.push(parse_statement()?); skip_ws_and_commas(); the loop again
PushStatement(inp, stmt, statements) ==
    IF stmt.ok
    THEN ParseRest(inp, SkipWsAndCommas(inp, stmt.pos),
                   Append(statements, stmt.val))
    ELSE stmt

ParseRest(inp, pos, statements) ==
    IF pos < Len(inp)
    THEN PushStatement(inp, ParseStatement(inp, pos), statements)
    ELSE POk(pos, statements)

\* parser::parse: Ok(statements) or Err(error)
Parse(inp) == ParseRest(inp, SkipWsAndCommas(inp, 0), <<>>)

---------------------------------------------------------------------------
(* lib.rs: parse_motly.                                                     *)

MOTLYResult(value, errs) == [value |-> value, errors |-> errs]

\* MOTLYResult { value, errors: exec_errors }
Executed(r) == MOTLYResult(r.node, r.errs)

\* mutant of parse_motly: every statement is executed as soon as it is
\* parsed, so the statements before a syntax error are applied
RECURSIVE ParseMotlyFrom(_, _, _)

ParseMotlyStep(inp, stmt, r) ==
    IF stmt.ok
    THEN ParseMotlyFrom(inp, SkipWsAndCommas(inp, stmt.pos),
                        ExecuteStatement(stmt.val, r.node, r.errs))
    ELSE MOTLYResult(r.node, <<stmt.err>>)

ParseMotlyFrom(inp, pos, r) ==
    IF pos < Len(inp) THEN ParseMotlyStep(inp, ParseStatement(inp, pos), r)
    ELSE Executed(r)

ParseMotlyInterleaved(inp, value) ==
    ParseMotlyFrom(inp, SkipWsAndCommas(inp, 0),
                   [node |-> value, errs |-> <<>>])

\* the match of parse_motly on the result of parser::parse
MatchParsed(parsed, value) ==
    IF parsed.ok THEN Executed(Execute(parsed.val, value))
    ELSE MOTLYResult(value, <<parsed.err>>)

ParseMotly(inp, value) == MatchParsed(Parse(inp), value)

---------------------------------------------------------------------------
(* parse_motly on source texts: the text is a concatenation of at most      *)
(* MaxFrags pieces of source, the tree one of the seed roots.               *)

MaxFrags == 3

Fragments ==
    { <<"a", "=", "b">>,                    \* a=b
      <<"b", ":", "=", "$", "a">>,          \* b:=$a
      <<"-", "a">>,                         \* -a
      <<"a", ".", "b">>,                    \* a.b
      <<"a", ":", "{">>,                    \* a:{
      <<"-", ".", ".", ".">>,               \* -...
      <<"{">>, <<"}">>, <<"=">>, <<"]">>,
      <<"[", "1">>,                         \* [1
      <<"$", "^", "b">>,                    \* $^b
      <<" ">>, <<",">> }

\* the concatenations of at most n fragments
RECURSIVE Sources(_)
Sources(n) ==
    IF n = 0 THEN {<<>>}
    ELSE Sources(n - 1) \cup {s \o f : s \in Sources(n - 1), f \in Fragments}

InitParse ==
    /\ root0 \in SeedRoots
    /\ input \in Sources(MaxFrags)
    /\ schema = NewNode
    /\ root = root0
    /\ errors = <<>>
    /\ pre = root0
    /\ last = NoStmt
    /\ steps = 0
    /\ lastClone = NoClone
    /\ listA = <<>>
    /\ listB = <<>>
    /\ StoreUnused

\* one call parse_motly(input, root0)
ParseMotlyCall ==
    /\ steps = 0
    /\ \E r \in {ParseMotly(input, root0)} :
           /\ root' = r.value
           /\ errors' = r.errors
    /\ steps' = 1
    /\ UNCHANGED <<pre, last, lastClone, root0, listA, listB, input, schema,
                   SESSIONS, NEXT_SESSION_ID, calls, stack>>

NextParse == ParseMotlyCall

SpecParse == InitParse /\ [][NextParse]_vars

\* C1: when the input has a syntax error, parse_motly returns exactly one
\* error, coded tag-parse-syntax-error, and the tree it was given: no
\* statement of the input is applied.
C1_SyntaxErrorAppliesNothing ==
    (steps = 1 /\ ~Parse(input).ok) =>
        /\ Len(errors) = 1
        /\ errors[1].code = "tag-parse-syntax-error"
        /\ root = root0

\* C1 witness: the input fails to parse, but a proper prefix of it is a
\* well-formed statement list whose execution would change the tree.
C1_Witness ==
    /\ steps = 1
    /\ ~Parse(input).ok
    /\ \E k \in 1..(Len(input) - 1) :
           /\ Parse(SubSeq(input, 1, k)).ok
           /\ Execute(Parse(SubSeq(input, 1, k)).val, root0).node # root0
    /\ root = root0

---------------------------------------------------------------------------
(* `name { S* }`.                                                           *)

\* the keys of the target node that the statements of a block write
WrittenKeys(stmts) ==
    { stmts[i].path[1] : i \in { j \in 1..Len(stmts) : stmts[j].kind # "ClearAll" } }

\* the child at the write key before the statement was a Node, and the
\* statement leaves it its eq, its deleted flag and every property that S*
\* does not write
UpdateKeepsChild ==
    LET new == Lookup(root, last.path)
        old == Lookup(pre, last.path)
    IN /\ new.pv = "Node"
       /\ new.node.eq = old.node.eq
       /\ new.node.deleted = old.node.deleted
       /\ \A k \in (DOMAIN old.node.props) \ WrittenKeys(last.properties) :
              /\ k \in DOMAIN new.node.props
              /\ new.node.props[k] = old.node.props[k]

C11_WitnessLink ==
    /\ last.kind = "UpdateProperties"
    /\ Lookup(pre, last.path).pv = "Ref"
    /\ Lookup(root, last.path).pv = "Node"
    /\ DOMAIN Lookup(root, last.path).node.props # {}

---------------------------------------------------------------------------
\* C12: `name` puts an empty Node at the write key when nothing is found
\* there, changing nothing off the write path; when a Node (whatever its
\* eq, properties or deleted flag) or a Link is found there, along a path
\* of Nodes, the whole tree stays as it was; running it again changes
\* nothing.
LastIsDefine == last.kind = "Define" /\ ~last.deleted

C12_DefineOnlyIfAbsent ==
    LastIsDefine =>
        /\ Lookup(pre, last.path) = Absent
               => /\ Lookup(root, last.path) = NewNodePv
                  /\ FrameOutside(pre, root, last.path)
        /\ Lookup(pre, last.path) # Absent => root = pre
        /\ ExecuteDefine(root, last.path, FALSE) = root

\* C12 witness: `name` met a Link, a tombstone or a Node with an eq at the
\* write key and left the tree as it was.
C12_Witness ==
    /\ LastIsDefine
    /\ Len(last.path) > 1
    /\ Lookup(pre, last.path).pv = "Node"
    /\ \/ Lookup(pre, last.path).node.eq # EqNone
       \/ DOMAIN Lookup(pre, last.path).node.props # {}
    /\ root = pre

\* `name` met a Link at the write key.
C12_WitnessLink ==
    LastIsDefine /\ Lookup(pre, last.path).pv = "Ref" /\ root = pre

\* `name` met a tombstone at the write key.
C12_WitnessTombstone ==
    /\ LastIsDefine
    /\ Lookup(pre, last.path).pv = "Node"
    /\ Lookup(pre, last.path).node.deleted
    /\ root = pre

---------------------------------------------------------------------------
(* Navigation to the parent of the write key.                               *)

\* the last statement called build_access_path: it takes a path and is not
\* a `:=` whose reference failed to resolve, which returns before it
LastNavigates ==
    /\ last.kind \in {"Define", "SetEq", "AssignBoth", "ReplaceProperties",
                      "UpdateProperties"}
    /\ ~(LastIsClone /\ ~ResolveAndClone(pre, last.path, last.value.ups,
                                          last.value.path).ok)

C13_WitnessNode ==
    /\ LastNavigates
    /\ Len(last.path) > 1
    /\ Lookup(pre, <<last.path[1]>>).pv = "Node"
    /\ Lookup(pre, <<last.path[1]>>).node.eq # EqNone
    /\ (DOMAIN Lookup(pre, <<last.path[1]>>).node.props) \ {last.path[2]} # {}

---------------------------------------------------------------------------
(* validate.rs: reference validation.  A message is the text after the     *)
(* quoted reference string, without the numbers it carries.                 *)

ValidationError(message, path) ==
    [code |-> "unresolved-reference", path |-> path, message |-> message]

\* what resolve_path and check_link return: None, or Some(message)
NoMessage == [some |-> FALSE]
SomeMessage(message) == [some |-> TRUE, message |-> message]

\* str::parse::<usize>: an optional `+`, then one or more ASCII digits
\* (no index of the model is wide enough to overflow)
UsizeDigits(buf) == IF buf # <<>> /\ buf[1] = "+" THEN Tail(buf) ELSE buf

ParseUsizeOk(buf) ==
    /\ UsizeDigits(buf) # <<>>
    /\ \A i \in 1..Len(UsizeDigits(buf)) : IsAsciiDigit(UsizeDigits(buf)[i])

\* `if !name_buf.is_empty() { segments.push(Name(name_buf)) }`
PushName(segments, name_buf) ==
    IF name_buf = <<>> THEN segments ELSE Append(segments, SegName(name_buf))

\* `if let Ok(idx) = idx_buf.parse::<usize>() { segments.push(Index(idx)) }`
PushIndex(segments, idx_buf) ==
    IF ParseUsizeOk(idx_buf)
    THEN Append(segments, SegIndex(DigitsValue(UsizeDigits(idx_buf))))
    ELSE segments

\* the position of the first `]` at or after pos, Len(s) + 1 if none
CloseAt(s, pos) ==
    IF \E i \in pos..Len(s) : s[i] = "]"
    THEN CHOOSE i \in pos..Len(s) :
             s[i] = "]" /\ \A j \in pos..(i - 1) : s[j] # "]"
    ELSE Len(s) + 1

\* the segment loop of parse_link_string
RECURSIVE LinkSegments(_, _, _, _)
LinkSegments(s, pos, name_buf, segments) ==
    IF pos > Len(s) THEN PushName(segments, name_buf)
    ELSE IF s[pos] = "."
    THEN LinkSegments(s, pos + 1, <<>>, PushName(segments, name_buf))
    ELSE IF s[pos] = "["
    THEN LinkSegments(s, CloseAt(s, pos + 1) + 1, <<>>,
                      PushIndex(PushName(segments, name_buf),
                                SubSeq(s, pos + 1, CloseAt(s, pos + 1) - 1)))
    ELSE LinkSegments(s, pos + 1, Append(name_buf, s[pos]), segments)

SkipDollar(s) == IF s # <<>> /\ s[1] = "$" THEN 2 ELSE 1

\* the number of `^` from pos on
RECURSIVE CountUps(_, _)
CountUps(s, pos) ==
    IF pos <= Len(s) /\ s[pos] = "^" THEN 1 + CountUps(s, pos + 1) ELSE 0

\* parse_link_string: (ups, segments)
ParseLinkString(s) ==
    [ups |-> CountUps(s, SkipDollar(s)),
     segments |-> LinkSegments(s, SkipDollar(s) + CountUps(s, SkipDollar(s)),
                               <<>>, <<>>)]

\* ResolveTarget
TargetNode(node) == [t |-> "Node", node |-> node]
Terminal == [t |-> "Terminal"]

TargetOf(pv) == IF pv.pv = "Node" THEN TargetNode(pv.node) ELSE Terminal

\* resolve_path, from `current` on
RECURSIVE ResolveFrom(_, _)
ResolveFrom(current, segments) ==
    IF segments = <<>> THEN NoMessage
    ELSE IF current.t = "Terminal"
    THEN SomeMessage("cannot follow path through a link")
    ELSE IF segments[1].seg = "Name"
    THEN IF ~current.node.hasProps
         THEN SomeMessage("property not found (node has no properties)")
         ELSE IF segments[1].name \notin DOMAIN current.node.props
         THEN SomeMessage("property not found")
         ELSE ResolveFrom(TargetOf(current.node.props[segments[1].name]),
                          Tail(segments))
    ELSE IF current.node.eq.k # "Array"
    THEN SomeMessage("index used on non-array")
    ELSE IF segments[1].idx >= Len(current.node.eq.arr)
    THEN SomeMessage("index out of bounds")
    ELSE ResolveFrom(TargetOf(current.node.eq.arr[segments[1].idx + 1]),
                     Tail(segments))

ResolvePath(start, segments) == ResolveFrom(TargetNode(start), segments)

\* check_link on the parsed link
CheckParsed(parsed, ancestors, root_) ==
    IF parsed.ups = 0 THEN ResolvePath(root_, parsed.segments)
    ELSE IF parsed.ups <= Len(ancestors)
    THEN ResolvePath(ancestors[Len(ancestors) - parsed.ups + 1], parsed.segments)
    ELSE SomeMessage("goes up but too few ancestors available")

CheckLink(link, ancestors, root_) ==
    CheckParsed(ParseLinkString(link), ancestors, root_)

\* `if let Some(err_msg) = check_link(..) { errors.push(..) }`
PushUnresolved(errs, res, path) ==
    IF res.some THEN Append(errs, ValidationError(res.message, path)) ELSE errs

\* format!("[{}]", i)
IndexKey(i) == <<"[">> \o UsizeToString(i) \o <<"]">>

RECURSIVE WalkRefs(_, _, _, _, _)
RECURSIVE WalkArrayRefs(_, _, _, _, _, _, _)
RECURSIVE WalkProps(_, _, _, _, _, _)

\* walk_array_refs, from element i on
WalkArrayRefs(arr, i, path, ancestors, parent_node, root_, errs) ==
    IF i > Len(arr) THEN errs
    ELSE WalkArrayRefs(arr, i + 1, path, ancestors, parent_node, root_,
             IF arr[i].pv = "Ref"
             THEN PushUnresolved(errs, CheckLink(arr[i].link, ancestors, root_),
                                 Append(path, IndexKey(i - 1)))
             ELSE WalkRefs(arr[i].node, Append(path, IndexKey(i - 1)),
                           Append(ancestors, parent_node), root_, errs))

\* the loop of walk_refs over the properties, in key order
WalkProps(node, keys, path, ancestors, root_, errs) ==
    IF keys = <<>> THEN errs
    ELSE WalkProps(node, Tail(keys), path, ancestors, root_,
             IF node.props[keys[1]].pv = "Ref"
             THEN PushUnresolved(errs,
                                 CheckLink(node.props[keys[1]].link, ancestors, root_),
                                 Append(path, keys[1]))
             ELSE WalkRefs(node.props[keys[1]].node, Append(path, keys[1]),
                           Append(ancestors, node), root_, errs))

WalkRefs(node, path, ancestors, root_, errs) ==
    WalkProps(node,
              IF node.hasProps THEN SortedKeys(DOMAIN node.props) ELSE <<>>,
              path, ancestors, root_,
              IF node.eq.k = "Array"
              THEN WalkArrayRefs(node.eq.arr, 1, path, ancestors, node, root_, errs)
              ELSE errs)

ValidateReferences(root_) == WalkRefs(root_, <<>>, <<root_>>, root_, <<>>)

---------------------------------------------------------------------------
(* validate_references on trees built by statements and by Links put in     *)
(* place directly, as a tree read by from_wire or assembled by a host has  *)
(* them: a Link there carries any string.                                   *)

MaxRefSteps == 3     \* edits of the tree before it is validated

nc == <<"c">>

RefStmts ==
    { SetEq(<<nb>>, VNumber(Dec(1, 0)), FALSE, NoProps),              \* b = 1
      SetEq(<<na>>,                                   \* a = [$b, 1 { c = $^^b }, $a[0].c]
            VArray(<<ArrayElement(TRUE, Ref(0, <<SegName(nb)>>), FALSE, NoProps),
                     ArrayElement(TRUE, VNumber(Dec(1, 0)), TRUE,
                         <<SetEq(<<nc>>, Ref(2, <<SegName(nb)>>), FALSE, NoProps)>>),
                     ArrayElement(TRUE,
                         Ref(0, <<SegName(na), SegIndex(0), SegName(nc)>>),
                         FALSE, NoProps)>>),
            FALSE, NoProps),
      SetEq(<<nc>>, Ref(0, <<SegName(na), SegIndex(1)>>), FALSE, NoProps),   \* c = $a[1]
      SetEq(<<nc>>, Ref(0, <<SegName(na), SegIndex(0)>>), FALSE, NoProps),   \* c = $a[0]
      SetEq(<<nc>>, Ref(0, <<SegName(na), SegIndex(3)>>), FALSE, NoProps),   \* c = $a[3]
      SetEq(<<na, nb>>, Ref(1, <<SegName(nb)>>), FALSE, NoProps),            \* a.b = $^b
      SetEq(<<na, nc>>, Ref(3, <<SegName(nb)>>), FALSE, NoProps),            \* a.c = $^^^b
      SetEq(<<nc>>, Ref(0, <<SegName(na), SegName(nb)>>), FALSE, NoProps),   \* c = $a.b
      SetEq(<<nb>>, Ref(0, <<SegName(nc), SegName(na)>>), FALSE, NoProps),   \* b = $c.a
      Define(<<na>>, TRUE) }                                                 \* -a

\* where a Link is put directly, and the strings it carries
RawLinkPaths == { <<nc>>, <<na, nc>> }

RawLinks ==
    { <<"$", "a", "[", "x", "]">>,                    \* $a[x]
      <<"$", "b", "[", "x", "]">>,                    \* $b[x]
      <<"$", "^", "a", "[", "]", ".", "b">>,          \* $^a[].b
      <<"$", "a", "[", "1", "]">> }                   \* $a[1]

Validated == [kind |-> "ValidateReferences"]

InitRefs ==
    /\ root = NewNode
    /\ errors = <<>>
    /\ pre = NewNode
    /\ last = NoStmt
    /\ steps = 0
    /\ lastClone = NoClone
    /\ root0 = NewNode
    /\ listA = <<>>
    /\ listB = <<>>
    /\ input = <<>>
    /\ schema = NewNode
    /\ StoreUnused

\* one statement executed on the tree
RefExecute ==
    /\ last # Validated
    /\ steps < MaxRefSteps
    /\ \E stmt \in RefStmts :
           /\ \E r \in {Execute(<<stmt>>, root)} : root' = r.node
           /\ last' = stmt
    /\ pre' = root
    /\ steps' = steps + 1
    /\ UNCHANGED <<errors, lastClone, root0, listA, listB, input, schema,
                   SESSIONS, NEXT_SESSION_ID, calls, stack>>

\* a Link put at a path
RefPutLink ==
    /\ last # Validated
    /\ steps < MaxRefSteps
    /\ \E path \in RawLinkPaths, link \in RawLinks :
           /\ root' = InsertAtParent(BuildAccessPath(root, path), PvRef(link))
           /\ last' = [kind |-> "PutLink", path |-> path, link |-> link]
    /\ pre' = root
    /\ steps' = steps + 1
    /\ UNCHANGED <<errors, lastClone, root0, listA, listB, input, schema,
                   SESSIONS, NEXT_SESSION_ID, calls, stack>>

\* validate_references(&tree)
ValidateReferencesCall ==
    /\ last # Validated
    /\ errors' = ValidateReferences(root)
    /\ last' = Validated
    /\ UNCHANGED <<root, pre, steps, lastClone, root0, listA, listB, input, schema,
                   SESSIONS, NEXT_SESSION_ID, calls, stack>>

NextRefs == RefExecute \/ RefPutLink \/ ValidateReferencesCall

SpecRefs == InitRefs /\ [][NextRefs]_vars

---------------------------------------------------------------------------
(* The resolution of a Link as section 4.3 of the specification gives it.   *)

\* every Link of the tree: its path, its string, and the ancestors stack at
\* the node that holds it
RECURSIVE LinkSites(_, _, _)
LinkSites(node, path, above) ==
    LET arr == IF node.eq.k = "Array" THEN node.eq.arr ELSE <<>>
        slots == {[key |-> IndexKey(i - 1), pv |-> arr[i]] : i \in 1..Len(arr)}
                     \cup {[key |-> k, pv |-> node.props[k]] : k \in DOMAIN node.props}
    IN {[path |-> Append(path, sl.key), link |-> sl.pv.link, above |-> above] :
            sl \in {x \in slots : x.pv.pv = "Ref"}}
       \cup UNION {LinkSites(sl.pv.node, Append(path, sl.key), Append(above, node)) :
                       sl \in {x \in slots : x.pv.pv = "Node"}}

\* the segments lead from `pvv` to a Node or a Link, passing through Nodes
RECURSIVE Reaches(_, _)
Reaches(pvv, segs) ==
    \/ segs = <<>>
    \/ /\ pvv.pv = "Node"
       /\ IF segs[1].seg = "Name"
          THEN /\ pvv.node.hasProps
               /\ segs[1].name \in DOMAIN pvv.node.props
               /\ Reaches(pvv.node.props[segs[1].name], Tail(segs))
          ELSE /\ pvv.node.eq.k = "Array"
               /\ segs[1].idx < Len(pvv.node.eq.arr)
               /\ Reaches(pvv.node.eq.arr[segs[1].idx + 1], Tail(segs))

\* the string has a `[...]` whose content is not a non-negative integer
HasInvalidIndex(link) ==
    \E i \in 1..Len(link) :
        /\ link[i] = "["
        /\ LET content == SubSeq(link, i + 1, CloseAt(link, i + 1) - 1)
           IN content = <<>> \/ \E j \in 1..Len(content) : ~IsAsciiDigit(content[j])

SiteResolves(site, tree) ==
    /\ ~HasInvalidIndex(site.link)
    /\ LET p == ParseLinkString(site.link)
       IN IF p.ups = 0 THEN Reaches(PvNode(tree), p.segments)
          ELSE /\ p.ups <= Len(site.above)
               /\ Reaches(PvNode(site.above[Len(site.above) - p.ups + 1]),
                          p.segments)

AllSites == LinkSites(root, <<>>, <<root>>)

FailingSites == {site \in AllSites : ~SiteResolves(site, root)}

\* the errors are one unresolved-reference for each failing Link, at its path
ErrorsAreFailingSites ==
    /\ \A i \in 1..Len(errors) : errors[i].code = "unresolved-reference"
    /\ {errors[i].path : i \in 1..Len(errors)} = {site.path : site \in FailingSites}
    /\ Len(errors) = Cardinality(FailingSites)

\* C14 as stated: validate_references returns exactly one
\* unresolved-reference error, carrying the Link's path with indices as
\* `[N]`, for each Link that the resolution of section 4.3 fails to resolve,
\* and nothing else; so none iff every Link resolves.
C14_ErrorsAreUnresolvedLinks ==
    last = Validated => ErrorsAreFailingSites

\* the same on the trees none of whose Links has an invalid index in its
\* string
C14_WellFormedLinks ==
    (last = Validated /\ \A site \in AllSites : ~HasInvalidIndex(site.link))
        => ErrorsAreFailingSites

\* on such a tree: a Link in the properties of an array element fails to
\* resolve, and `$a[0]`, whose path ends at a Link, resolves
C14_WellFormedWitness ==
    /\ last = Validated
    /\ \A site \in AllSites : ~HasInvalidIndex(site.link)
    /\ \E site \in FailingSites : Len(site.path) = 3
    /\ \E site \in AllSites \ FailingSites :
           /\ site.link = <<"$", "a", "[", "0", "]">>
           /\ Lookup(root, <<na>>).node.eq.arr[1].pv = "Ref"

---------------------------------------------------------------------------
\* C15: every Link whose string has a `[...]` that does not hold a
\* non-negative integer is reported as an unresolved-reference at its path.
C15_InvalidIndexReported ==
    last = Validated =>
        \A site \in AllSites :
            HasInvalidIndex(site.link) =>
                \E i \in 1..Len(errors) :
                    /\ errors[i].code = "unresolved-reference"
                    /\ errors[i].path = site.path

---------------------------------------------------------------------------
(* validate.rs: schema validation.  A message is its fixed text, without    *)
(* the names and values the code formats into it.                           *)

SchemaError(code, message, path) ==
    [code |-> code, path |-> path, message |-> message]

\* the names the validator looks up, as strings of characters
KRequired == <<"R", "e", "q", "u", "i", "r", "e", "d">>
KOptional == <<"O", "p", "t", "i", "o", "n", "a", "l">>
KAdditional == <<"A", "d", "d", "i", "t", "i", "o", "n", "a", "l">>
KTypes == <<"T", "y", "p", "e", "s">>
KOneOf == <<"o", "n", "e", "O", "f">>
KEq == <<"e", "q">>
KMatches == <<"m", "a", "t", "c", "h", "e", "s">>

TString == <<"s", "t", "r", "i", "n", "g">>
TNumber == <<"n", "u", "m", "b", "e", "r">>
TBoolean == <<"b", "o", "o", "l", "e", "a", "n">>
TDate == <<"d", "a", "t", "e">>
TTag == <<"t", "a", "g">>
TFlag == <<"f", "l", "a", "g">>
TAny == <<"a", "n", "y">>
SAllow == <<"a", "l", "l", "o", "w">>
SReject == <<"r", "e", "j", "e", "c", "t">>

\* Option<&BTreeMap>
NoSection == [some |-> FALSE]
SomeSection(map) == [some |-> TRUE, map |-> map]

\* the node has a child `key` that is a Node
HasNodeChild(node, key) ==
    node.hasProps /\ key \in DOMAIN node.props /\ node.props[key].pv = "Node"

\* extract_section
ExtractSection(node, name) ==
    IF HasNodeChild(node, name) /\ node.props[name].node.hasProps
    THEN SomeSection(node.props[name].node.props)
    ELSE NoSection

\* the map of a section, empty when there is none: the loops over Required
\* and Optional and collect_known_keys treat both alike
SectionMap(node, name) ==
    IF ExtractSection(node, name).some THEN ExtractSection(node, name).map
    ELSE EmptyMap

\* get_eq_string(node).is_some(), and the string
HasEqString(node) == node.eq.k = "Scalar" /\ node.eq.sc.ty = "String"

EqStringOf(node) == node.eq.sc.s

\* value_eq_string(value).is_some()
ValueHasEqString(value) == value.pv = "Node" /\ HasEqString(value.node)

\* make_type_spec_node
MakeTypeSpecNode(type_name) ==
    MkNode(EqScalar(ScString(type_name)), FALSE, EmptyMap, FALSE)

\* AdditionalPolicy
PolicyReject == [policy |-> "Reject"]
PolicyAllow == [policy |-> "Allow"]
PolicyValidateAs(type_name) == [policy |-> "ValidateAs", type_name |-> type_name]

\* mutant of get_additional_policy: an eq string other than "allow" is
\* "reject"
GetAdditionalPolicyNoTypes(schema_) ==
    IF ~schema_.hasProps THEN PolicyReject
    ELSE IF KAdditional \notin DOMAIN schema_.props THEN PolicyReject
    ELSE IF schema_.props[KAdditional].pv # "Node" THEN PolicyReject
    ELSE IF ~HasEqString(schema_.props[KAdditional].node) THEN PolicyAllow
    ELSE IF EqStringOf(schema_.props[KAdditional].node) = SAllow THEN PolicyAllow
    ELSE PolicyReject

\* get_additional_policy
GetAdditionalPolicy(schema_) ==
    IF ~schema_.hasProps THEN PolicyReject
    ELSE IF KAdditional \notin DOMAIN schema_.props THEN PolicyReject
    ELSE IF schema_.props[KAdditional].pv # "Node" THEN PolicyReject
    ELSE IF ~HasEqString(schema_.props[KAdditional].node) THEN PolicyAllow
    ELSE IF EqStringOf(schema_.props[KAdditional].node) = SAllow THEN PolicyAllow
    ELSE IF EqStringOf(schema_.props[KAdditional].node) = SReject THEN PolicyReject
    ELSE PolicyValidateAs(EqStringOf(schema_.props[KAdditional].node))

\* collect_known_keys, as a set
CollectKnownKeys(required, optional) == (DOMAIN required) \cup (DOMAIN optional)

\* Regex::new(pattern) succeeds.  The patterns of the model are literal
\* characters with an optional `^` in front and `$` behind, and `(`, which
\* does not compile.
RegexCompiles(pattern) == \A i \in 1..Len(pattern) : pattern[i] # "("

RegexLiteral(pattern) ==
    SubSeq(pattern,
           IF pattern # <<>> /\ pattern[1] = "^" THEN 2 ELSE 1,
           IF pattern # <<>> /\ Last(pattern) = "$" THEN Len(pattern) - 1
           ELSE Len(pattern))

\* Regex::is_match, for such a pattern
IsMatch(pattern, s) ==
    \E i \in 1..(Len(s) + 1) :
        /\ i + Len(RegexLiteral(pattern)) - 1 <= Len(s)
        /\ SubSeq(s, i, i + Len(RegexLiteral(pattern)) - 1) = RegexLiteral(pattern)
        /\ (pattern # <<>> /\ pattern[1] = "^") => i = 1
        /\ (pattern # <<>> /\ Last(pattern) = "$")
               => i + Len(RegexLiteral(pattern)) - 1 = Len(s)

\* type_name.strip_suffix("[]").is_some()
IsArrayTypeName(type_name) ==
    /\ Len(type_name) >= 2
    /\ type_name[Len(type_name) - 1] = "["
    /\ type_name[Len(type_name)] = "]"

RECURSIVE ValidateNodeAgainstSchema(_, _, _, _, _)
RECURSIVE ValidateRequired(_, _, _, _, _, _)
RECURSIVE ValidateOptional(_, _, _, _, _, _)
RECURSIVE ValidateUnknown(_, _, _, _, _, _, _)
RECURSIVE ValidateValueType(_, _, _, _, _)
RECURSIVE ValidateBaseType(_, _, _, _, _)
RECURSIVE ValidateArrayElements(_, _, _, _, _, _)
RECURSIVE UnionMatches(_, _, _, _, _)

\* validate_type_string / _number / _boolean / _date
ValidateTypeScalar(value, ty, path, errs) ==
    IF value.pv = "Ref"
    THEN Append(errs, SchemaError("wrong-type", "Expected type but found a link", path))
    ELSE IF value.node.eq.k = "Scalar" /\ value.node.eq.sc.ty = ty THEN errs
    ELSE Append(errs, SchemaError("wrong-type", "Expected type", path))

\* validate_type_tag / validate_type_flag
ValidateTypeTag(value, path, errs) ==
    IF value.pv = "Ref"
    THEN Append(errs, SchemaError("wrong-type", "Expected type but found a link", path))
    ELSE errs

\* the custom arm of validate_base_type
ValidateCustomType(value, custom, types, path, errs) ==
    IF ~types.some
    THEN Append(errs, SchemaError("invalid-schema",
                                  "Unknown type (no Types section in schema)", path))
    ELSE IF custom \notin DOMAIN types.map
    THEN Append(errs, SchemaError("invalid-schema", "Unknown type in schema", path))
    ELSE ValidateValueType(value, types.map[custom], types, path, errs)

\* validate_array_type
ValidateArrayType(value, inner_type, types, path, errs) ==
    IF value.pv = "Ref"
    THEN Append(errs, SchemaError("wrong-type", "Expected type [] but found a link", path))
    ELSE IF value.node.eq.k # "Array"
    THEN Append(errs, SchemaError("wrong-type",
                                  "Expected type [] but value is not an array", path))
    ELSE ValidateArrayElements(value.node.eq.arr, 1, inner_type, types, path, errs)

ValidateArrayElements(arr, i, inner_type, types, path, errs) ==
    IF i > Len(arr) THEN errs
    ELSE ValidateArrayElements(arr, i + 1, inner_type, types, path,
             ValidateBaseType(arr[i], inner_type, types,
                              Append(path, IndexKey(i - 1)), errs))

ValidateBaseType(value, type_name, types, path, errs) ==
    IF IsArrayTypeName(type_name)
    THEN ValidateArrayType(value, SubSeq(type_name, 1, Len(type_name) - 2),
                           types, path, errs)
    ELSE IF type_name = TString THEN ValidateTypeScalar(value, "String", path, errs)
    ELSE IF type_name = TNumber THEN ValidateTypeScalar(value, "Number", path, errs)
    ELSE IF type_name = TBoolean THEN ValidateTypeScalar(value, "Boolean", path, errs)
    ELSE IF type_name = TDate THEN ValidateTypeScalar(value, "Date", path, errs)
    ELSE IF type_name = TTag \/ type_name = TFlag THEN ValidateTypeTag(value, path, errs)
    ELSE IF type_name = TAny THEN errs
    ELSE ValidateCustomType(value, type_name, types, path, errs)

\* `allowed.iter().any(..)`
EnumAllows(allowed, node_eq) ==
    \E i \in 1..Len(allowed) :
        /\ allowed[i].pv = "Node"
        /\ allowed[i].node.eq.k = "Scalar"
        /\ allowed[i].node.eq.sc = node_eq

\* validate_enum
ValidateEnum(value, allowed, path, errs) ==
    IF value.pv = "Ref"
    THEN Append(errs, SchemaError("wrong-type",
                                  "Expected an enum value but found a link", path))
    ELSE IF value.node.eq.k # "Scalar"
    THEN Append(errs, SchemaError("invalid-enum-value", "Expected an enum value", path))
    ELSE IF EnumAllows(allowed, value.node.eq.sc) THEN errs
    ELSE Append(errs, SchemaError("invalid-enum-value",
                                  "Value does not match any allowed enum value", path))

\* validate_pattern
ValidatePattern(value, matches_node, path, errs) ==
    IF ~HasEqString(matches_node) THEN errs
    ELSE IF value.pv = "Ref"
    THEN Append(errs, SchemaError("wrong-type",
                    "Expected a value matching a pattern but found a link", path))
    ELSE IF ~(value.node.eq.k = "Scalar" /\ value.node.eq.sc.ty = "String")
    THEN Append(errs, SchemaError("pattern-mismatch",
                                  "Expected a string matching pattern", path))
    ELSE IF ~RegexCompiles(EqStringOf(matches_node))
    THEN Append(errs, SchemaError("invalid-schema", "Invalid regex pattern", path))
    ELSE IF IsMatch(EqStringOf(matches_node), value.node.eq.sc.s) THEN errs
    ELSE Append(errs, SchemaError("pattern-mismatch",
                                  "Value does not match pattern", path))

\* the trial loop of validate_union: some member from i on validates the
\* value with no error
UnionMatches(value, type_names, i, types, path) ==
    IF i > Len(type_names) THEN FALSE
    ELSE IF ~ValueHasEqString(type_names[i])
    THEN UnionMatches(value, type_names, i + 1, types, path)
    ELSE IF ValidateValueType(value,
                PvNode(MakeTypeSpecNode(EqStringOf(type_names[i].node))),
                types, path, <<>>) = <<>>
    THEN TRUE
    ELSE UnionMatches(value, type_names, i + 1, types, path)

\* mutant of validate_union: when no member matches, the errors of the
\* trial of the first member are reported as well
ValidateUnionWithTrial(value, one_of_node, types, path, errs) ==
    IF one_of_node.eq.k # "Array" THEN errs
    ELSE IF UnionMatches(value, one_of_node.eq.arr, 1, types, path) THEN errs
    ELSE Append(IF one_of_node.eq.arr # <<>> /\ ValueHasEqString(one_of_node.eq.arr[1])
                THEN ValidateValueType(value,
                         PvNode(MakeTypeSpecNode(EqStringOf(one_of_node.eq.arr[1].node))),
                         types, path, errs)
                ELSE errs,
                SchemaError("wrong-type",
                            "Value does not match any type in oneOf", path))

\* validate_union
ValidateUnion(value, one_of_node, types, path, errs) ==
    IF one_of_node.eq.k # "Array" THEN errs
    ELSE IF UnionMatches(value, one_of_node.eq.arr, 1, types, path) THEN errs
    ELSE Append(errs, SchemaError("wrong-type",
                                  "Value does not match any type in oneOf", path))

\* the spec node has no string eq: a nested schema, or nothing
ValidateStructural(value, spec_node, types, path, errs) ==
    IF ~(spec_node.hasProps /\ {KRequired, KOptional, KAdditional}
                                   \cap DOMAIN spec_node.props # {})
    THEN errs
    ELSE IF value.pv = "Node"
    THEN ValidateNodeAgainstSchema(value.node, spec_node, types, path, errs)
    ELSE Append(errs, SchemaError("wrong-type", "Expected a tag but found a link", path))

\* validate_value_type on a spec that is a Node
ValidateSpecNode(value, spec_node, types, path, errs) ==
    IF HasNodeChild(spec_node, KOneOf)
    THEN ValidateUnion(value, spec_node.props[KOneOf].node, types, path, errs)
    ELSE IF HasNodeChild(spec_node, KEq) /\ spec_node.props[KEq].node.eq.k = "Array"
    THEN ValidateEnum(value, spec_node.props[KEq].node.eq.arr, path, errs)
    ELSE IF HasNodeChild(spec_node, KMatches)
    THEN ValidatePattern(value, spec_node.props[KMatches].node, path,
             IF HasEqString(spec_node)
             THEN ValidateBaseType(value, EqStringOf(spec_node), types, path, errs)
             ELSE errs)
    ELSE IF HasEqString(spec_node)
    THEN ValidateBaseType(value, EqStringOf(spec_node), types, path, errs)
    ELSE ValidateStructural(value, spec_node, types, path, errs)

ValidateValueType(value, type_spec, types, path, errs) ==
    IF type_spec.pv = "Ref" THEN errs
    ELSE ValidateSpecNode(value, type_spec.node, types, path, errs)

\* the loop over Required, in key order
ValidateRequired(tag, required, keys, types, path, errs) ==
    IF keys = <<>> THEN errs
    ELSE ValidateRequired(tag, required, Tail(keys), types, path,
             IF tag.hasProps /\ keys[1] \in DOMAIN tag.props
             THEN ValidateValueType(tag.props[keys[1]], required[keys[1]], types,
                                    Append(path, keys[1]), errs)
             ELSE Append(errs, SchemaError("missing-required",
                                           "Missing required property",
                                           Append(path, keys[1]))))

\* the loop over Optional, in key order
ValidateOptional(tag, optional, keys, types, path, errs) ==
    IF keys = <<>> \/ ~tag.hasProps THEN errs
    ELSE ValidateOptional(tag, optional, Tail(keys), types, path,
             IF keys[1] \in DOMAIN tag.props
             THEN ValidateValueType(tag.props[keys[1]], optional[keys[1]], types,
                                    Append(path, keys[1]), errs)
             ELSE errs)

\* the loop over the keys of the tag, in key order
ValidateUnknown(tag, keys, known_keys, additional, types, path, errs) ==
    IF keys = <<>> THEN errs
    ELSE ValidateUnknown(tag, Tail(keys), known_keys, additional, types, path,
             IF keys[1] \in known_keys \/ additional.policy = "Allow" THEN errs
             ELSE IF additional.policy = "Reject"
             THEN Append(errs, SchemaError("unknown-property", "Unknown property",
                                           Append(path, keys[1])))
             ELSE ValidateValueType(tag.props[keys[1]],
                      PvNode(MakeTypeSpecNode(additional.type_name)), types,
                      Append(path, keys[1]), errs))

\* mutant of validate_node_against_schema: the Optional loop runs before the
\* Required loop
ValidateNodeOptionalFirst(tag, schema_, types, path, errs) ==
    ValidateUnknown(tag,
        IF tag.hasProps THEN SortedKeys(DOMAIN tag.props) ELSE <<>>,
        CollectKnownKeys(SectionMap(schema_, KRequired), SectionMap(schema_, KOptional)),
        GetAdditionalPolicy(schema_), types, path,
        ValidateRequired(tag, SectionMap(schema_, KRequired),
            SortedKeys(DOMAIN SectionMap(schema_, KRequired)), types, path,
            ValidateOptional(tag, SectionMap(schema_, KOptional),
                SortedKeys(DOMAIN SectionMap(schema_, KOptional)), types, path, errs)))

ValidateNodeAgainstSchema(tag, schema_, types, path, errs) ==
    ValidateUnknown(tag,
        IF tag.hasProps THEN SortedKeys(DOMAIN tag.props) ELSE <<>>,
        CollectKnownKeys(SectionMap(schema_, KRequired), SectionMap(schema_, KOptional)),
        GetAdditionalPolicy(schema_), types, path,
        ValidateOptional(tag, SectionMap(schema_, KOptional),
            SortedKeys(DOMAIN SectionMap(schema_, KOptional)), types, path,
            ValidateRequired(tag, SectionMap(schema_, KRequired),
                SortedKeys(DOMAIN SectionMap(schema_, KRequired)), types, path, errs)))

\* validate_schema
ValidateSchema(tag, schema_) ==
    ValidateNodeAgainstSchema(tag, schema_, ExtractSection(schema_, KTypes), <<>>, <<>>)

---------------------------------------------------------------------------
(* validate_schema on tag trees built by statements, against the schemas    *)
(* below, written in MOTLY in the comments.                                 *)

MaxTagSteps == 2     \* statements that build the tag tree

TagStmts ==
    { SetEq(<<na>>, VString(<<"h", "i">>), FALSE, NoProps),            \* a = hi
      SetEq(<<na>>, VNumber(Dec(1, 0)), FALSE, NoProps),               \* a = 1
      SetEq(<<na>>, Ref(0, <<SegName(nb)>>), FALSE, NoProps),          \* a = $b
      SetEq(<<na>>,                                                    \* a = [hi, 1]
            VArray(<<ArrayElement(TRUE, VString(<<"h", "i">>), FALSE, NoProps),
                     ArrayElement(TRUE, VNumber(Dec(1, 0)), FALSE, NoProps)>>),
            FALSE, NoProps),
      UpdateProperties(<<na>>,                                         \* a { c = 1 }
          <<SetEq(<<nc>>, VNumber(Dec(1, 0)), FALSE, NoProps)>>),
      SetEq(<<nb>>, VString(<<"h", "i">>), FALSE, NoProps),            \* b = hi
      SetEq(<<nb>>, VNumber(Dec(1, 0)), FALSE, NoProps),               \* b = 1
      SetEq(<<nc>>, VBoolean(TRUE), FALSE, NoProps) }                  \* c = @true

TPort == <<"P", "o", "r", "t">>
TNope == <<"n", "o", "p", "e">>
TUnion == <<"U">>
TStringArray == TString \o <<"[", "]">>

\* a type spec that is a type name
NameSpec(type_name) == PvNode(MakeTypeSpecNode(type_name))

\* a node with properties and no eq
SectionNode(map) == PvNode(MkNode(EqNone, TRUE, map, FALSE))

\* the node of `[name, ...]`
NamesArray(names) ==
    PvNode(MkNode(EqArray([i \in 1..Len(names) |-> NameSpec(names[i])]),
                  FALSE, EmptyMap, FALSE))

\* `{ oneOf = [name, ...] }`
UnionSpec(names) == SectionNode(KOneOf :> NamesArray(names))

\* `= number { <child> }`
NumberSpecWith(key, child) ==
    PvNode(MkNode(EqScalar(ScString(TNumber)), TRUE, key :> child, FALSE))

\* the schema with these sections
SchemaOf(map) == MkNode(EqNone, TRUE, map, FALSE)

OptionalB == KOptional :> SectionNode(nb :> NameSpec(TNumber))

Schemas ==
    { \* Required { a = string }
      SchemaOf(KRequired :> SectionNode(na :> NameSpec(TString))),
      \* Required { a { oneOf = [string, number] } }
      SchemaOf(KRequired :> SectionNode(na :> UnionSpec(<<TString, TNumber>>))),
      \* Required { a { oneOf = [Port, nope] } }  Types { Port = number }
      SchemaOf(KRequired :> SectionNode(na :> UnionSpec(<<TPort, TNope>>))
               @@ KTypes :> SectionNode(TPort :> NameSpec(TNumber))),
      \* Required { a { oneOf = [nope, `string[]`] } }
      SchemaOf(KRequired :> SectionNode(na :> UnionSpec(<<TNope, TStringArray>>))),
      \* Required { a = number { oneOf = x } }
      SchemaOf(KRequired :> SectionNode(na :> NumberSpecWith(KOneOf, NameSpec(<<"x">>)))),
      \* Required { a = number { oneOf } }
      SchemaOf(KRequired :> SectionNode(na :> NumberSpecWith(KOneOf, NewNodePv))),
      \* Required { a { eq = [hi, number] } }
      SchemaOf(KRequired :> SectionNode(na :>
                   SectionNode(KEq :> NamesArray(<<<<"h", "i">>, TNumber>>)))),
      \* Required { a = number { matches = "^h" } }
      SchemaOf(KRequired :> SectionNode(na :>
                   NumberSpecWith(KMatches, NameSpec(<<"^", "h">>)))),
      \* Required { a = any { matches = "(" } }
      SchemaOf(KRequired :> SectionNode(na :>
                   PvNode(MkNode(EqScalar(ScString(TAny)), TRUE,
                                 KMatches :> NameSpec(<<"(">>), FALSE)))),
      \* Required { a { Required { c = number } } }
      SchemaOf(KRequired :> SectionNode(na :>
                   SectionNode(KRequired :> SectionNode(nc :> NameSpec(TNumber))))),
      \* Optional { b = number }
      SchemaOf(OptionalB),
      \* Optional { b = number }  Additional = reject
      SchemaOf(OptionalB @@ KAdditional :> NameSpec(SReject)),
      \* Optional { b = number }  Additional = allow
      SchemaOf(OptionalB @@ KAdditional :> NameSpec(SAllow)),
      \* Optional { b = number }  Additional
      SchemaOf(OptionalB @@ KAdditional :> NewNodePv),
      \* Optional { b = number }  Additional = number
      SchemaOf(OptionalB @@ KAdditional :> NameSpec(TNumber)),
      \* Optional { b = number }  Additional = nope
      SchemaOf(OptionalB @@ KAdditional :> NameSpec(TNope)),
      \* Optional { b = number }  Additional = U  Types { U { oneOf = [string, tag] } }
      SchemaOf(OptionalB @@ KAdditional :> NameSpec(TUnion)
               @@ KTypes :> SectionNode(TUnion :> UnionSpec(<<TString, TTag>>))) }

ValidatedSchema == [kind |-> "ValidateSchema"]

InitSchema ==
    /\ root = NewNode
    /\ errors = <<>>
    /\ pre = NewNode
    /\ last = NoStmt
    /\ steps = 0
    /\ lastClone = NoClone
    /\ root0 = NewNode
    /\ listA = <<>>
    /\ listB = <<>>
    /\ input = <<>>
    /\ schema \in Schemas
    /\ StoreUnused

\* one statement executed on the tag tree
TagExecute ==
    /\ last # ValidatedSchema
    /\ steps < MaxTagSteps
    /\ \E stmt \in TagStmts :
           /\ \E r \in {Execute(<<stmt>>, root)} : root' = r.node
           /\ last' = stmt
    /\ pre' = root
    /\ steps' = steps + 1
    /\ UNCHANGED <<errors, lastClone, root0, listA, listB, input, schema,
                   SESSIONS, NEXT_SESSION_ID, calls, stack>>

\* validate_schema(&tag, &schema)
ValidateSchemaCall ==
    /\ last # ValidatedSchema
    /\ errors' = ValidateSchema(root, schema)
    /\ last' = ValidatedSchema
    /\ UNCHANGED <<root, pre, steps, lastClone, root0, listA, listB, input, schema,
                   SESSIONS, NEXT_SESSION_ID, calls, stack>>

NextSchema == TagExecute \/ ValidateSchemaCall

SpecSchema == InitSchema /\ [][NextSchema]_vars

---------------------------------------------------------------------------
(* Vocabulary of the schema properties.                                     *)

\* the errors reported at the tag property k or below it
ErrorsAt(k) == SelectSeq(errors, LAMBDA e : IsPrefix(<<k>>, e.path))

\* the errors of validating `value` at `path` against a type name
AgainstTypeName(value, type_name, path) ==
    ValidateBaseType(value, type_name, ExtractSection(schema, KTypes), path, <<>>)

\* the type spec has a `oneOf` child whose eq is an array
IsUnionSpec(spec) ==
    /\ spec.pv = "Node"
    /\ HasNodeChild(spec.node, KOneOf)
    /\ spec.node.props[KOneOf].node.eq.k = "Array"

\* the type names a union spec lists
MemberNames(spec) ==
    LET arr == spec.node.props[KOneOf].node.eq.arr
    IN {EqStringOf(arr[i].node) : i \in {j \in 1..Len(arr) : ValueHasEqString(arr[j])}}

\* the Required keys of the schema that the tag has and whose spec is a union
UnionKeys ==
    {k \in DOMAIN SectionMap(schema, KRequired) :
        /\ k \in DOMAIN root.props
        /\ IsUnionSpec(SectionMap(schema, KRequired)[k])}

\* C16: a value under a union spec is reported with no error if validating
\* it against one of the listed type names gives no error, and otherwise
\* with exactly one wrong-type error at the value's path and with none of
\* the errors of the member trials.
C16_UnionOneWrongType ==
    last = ValidatedSchema =>
        \A k \in UnionKeys :
            IF \E name \in MemberNames(SectionMap(schema, KRequired)[k]) :
                   AgainstTypeName(root.props[k], name, <<k>>) = <<>>
            THEN ErrorsAt(k) = <<>>
            ELSE /\ Len(ErrorsAt(k)) = 1
                 /\ ErrorsAt(k)[1].code = "wrong-type"
                 /\ ErrorsAt(k)[1].path = <<k>>

\* C16 witness: no member accepts the value, the trial of one member gives
\* an invalid-schema error, and the only error reported is the wrong-type.
C16_Witness ==
    /\ last = ValidatedSchema
    /\ \E k \in UnionKeys :
           /\ \A name \in MemberNames(SectionMap(schema, KRequired)[k]) :
                  AgainstTypeName(root.props[k], name, <<k>>) # <<>>
           /\ \E name \in MemberNames(SectionMap(schema, KRequired)[k]) :
                  HasCode(AgainstTypeName(root.props[k], name, <<k>>), "invalid-schema")
    /\ Len(errors) = 1
    /\ errors[1].code = "wrong-type"

\* a union accepts a value that its first member rejects
C16_WitnessAccepted ==
    /\ last = ValidatedSchema
    /\ errors = <<>>
    /\ \E k \in UnionKeys :
           \E name \in MemberNames(SectionMap(schema, KRequired)[k]) :
               AgainstTypeName(root.props[k], name, <<k>>) # <<>>

---------------------------------------------------------------------------
\* the tag properties named neither in Required nor in Optional
UnknownKeys ==
    (DOMAIN root.props)
        \ ((DOMAIN SectionMap(schema, KRequired)) \cup (DOMAIN SectionMap(schema, KOptional)))

\* the schema has an `Additional` child that is a Node
HasAdditional == HasNodeChild(schema, KAdditional)

AdditionalNode == schema.props[KAdditional].node

\* C17: for each tag property named neither in Required nor in Optional:
\* with no Additional section or with eq "reject" exactly one
\* unknown-property error at its path; with eq "allow", or with an
\* Additional that has no eq, no error; with any other eq string exactly
\* the errors of validating its value against that string as a type name.
C17_AdditionalPolicy ==
    last = ValidatedSchema =>
        \A k \in UnknownKeys :
            IF ~HasAdditional \/ (HasEqString(AdditionalNode)
                                   /\ EqStringOf(AdditionalNode) = SReject)
            THEN /\ Len(ErrorsAt(k)) = 1
                 /\ ErrorsAt(k)[1].code = "unknown-property"
                 /\ ErrorsAt(k)[1].path = <<k>>
            ELSE IF ~HasEqString(AdditionalNode) \/ EqStringOf(AdditionalNode) = SAllow
            THEN ErrorsAt(k) = <<>>
            ELSE ErrorsAt(k) =
                     AgainstTypeName(root.props[k], EqStringOf(AdditionalNode), <<k>>)

\* C17 witness: Additional names a type, one unknown property fails it with
\* a wrong-type error and another passes it.
C17_Witness ==
    /\ last = ValidatedSchema
    /\ HasAdditional
    /\ HasEqString(AdditionalNode)
    /\ EqStringOf(AdditionalNode) \notin {SAllow, SReject}
    /\ \E k \in UnknownKeys : HasCode(ErrorsAt(k), "wrong-type")
    /\ \E k \in UnknownKeys : ErrorsAt(k) = <<>>
    /\ ~HasCode(errors, "unknown-property")

---------------------------------------------------------------------------
\* the type spec has a `oneOf` child whose eq is not an array
HasDegenerateOneOf(spec) ==
    /\ spec.pv = "Node"
    /\ HasNodeChild(spec.node, KOneOf)
    /\ spec.node.props[KOneOf].node.eq.k # "Array"

\* the type spec without its `oneOf` child
WithoutOneOf(spec) ==
    PvNode([spec.node EXCEPT !.props =
                [key \in (DOMAIN spec.node.props) \ {KOneOf} |-> spec.node.props[key]]])

\* C18: a value under a spec whose `oneOf` child has no array eq is
\* validated by the rules that follow the union rule (enum, pattern, type
\* name, structural): it gets the errors the spec gives without that child,
\* so under `number { oneOf = x }` a string value gets a wrong-type error.
C18_OneOfNeedsArray ==
    last = ValidatedSchema =>
        \A k \in (DOMAIN SectionMap(schema, KRequired)) \cap (DOMAIN root.props) :
            HasDegenerateOneOf(SectionMap(schema, KRequired)[k]) =>
                ErrorsAt(k) =
                    ValidateValueType(root.props[k],
                                      WithoutOneOf(SectionMap(schema, KRequired)[k]),
                                      ExtractSection(schema, KTypes), <<k>>, <<>>)

---------------------------------------------------------------------------
(* json.rs: the JSON writer, compact style.  `wire` wraps dates.            *)

KDeleted == <<"d", "e", "l", "e", "t", "e", "d">>
KProperties == <<"p", "r", "o", "p", "e", "r", "t", "i", "e", "s">>
KLinkTo == <<"l", "i", "n", "k", "T", "o">>
KEnv == <<"e", "n", "v">>
KDate == <<"$", "d", "a", "t", "e">>
LTrue == <<"t", "r", "u", "e">>
LFalse == <<"f", "a", "l", "s", "e">>
LNull == <<"n", "u", "l", "l">>

\* one character of write_string_value (no other control character is in
\* the strings of the model)
JsonEscape(ch) ==
    CASE ch = "\"" -> <<"\\", "\"">>
      [] ch = "\\" -> <<"\\", "\\">>
      [] ch = "\n" -> <<"\\", "n">>
      [] ch = "\r" -> <<"\\", "r">>
      [] ch = "\t" -> <<"\\", "t">>
      [] ch = Backspace -> <<"\\", "b">>
      [] ch = FormFeed -> <<"\\", "f">>
      [] OTHER -> <<ch>>

RECURSIVE JsonEscapeAll(_)
JsonEscapeAll(s) ==
    IF s = <<>> THEN <<>> ELSE JsonEscape(s[1]) \o JsonEscapeAll(Tail(s))

WriteStringValue(s) == <<"\"">> \o JsonEscapeAll(s) \o <<"\"">>

\* write_key, compact
WriteKey(key) == WriteStringValue(key) \o <<":">>

RECURSIVE Pow10(_)
Pow10(n) == IF n = 0 THEN 1 ELSE 10 * Pow10(n - 1)

\* i64 Display
WriteI64(i) == IF i < 0 THEN <<"-">> \o UsizeToString(0 - i) ELSE UsizeToString(i)

\* the digits of a fraction of k places, zero-padded in front
RECURSIVE FractionDigits(_, _)
FractionDigits(frac, k) ==
    IF k = 0 THEN <<>> ELSE FractionDigits(frac \div 10, k - 1) \o <<DigitChar(frac % 10)>>

\* f64 Display of mant * 10^exp with exp < 0: positional, never an exponent
WriteF64(n) ==
    (IF n.mant < 0 THEN <<"-">> ELSE <<>>)
        \o UsizeToString((IF n.mant < 0 THEN 0 - n.mant ELSE n.mant) \div Pow10(0 - n.exp))
        \o <<".">>
        \o FractionDigits((IF n.mant < 0 THEN 0 - n.mant ELSE n.mant) % Pow10(0 - n.exp),
                          0 - n.exp)

\* write_number: integral values below 2^53 as i64, others as f64 (every
\* number of the model is below 2^53)
WriteNumber(n) ==
    IF n.exp >= 0 THEN WriteI64(n.mant * Pow10(n.exp)) ELSE WriteF64(n)

\* write_scalar
WriteScalar(scalar, wire) ==
    CASE scalar.ty = "String" -> WriteStringValue(scalar.s)
      [] scalar.ty = "Number" -> WriteNumber(scalar.n)
      [] scalar.ty = "Boolean" -> IF scalar.b THEN LTrue ELSE LFalse
      [] scalar.ty = "Date" ->
            IF wire
            THEN <<"{">> \o WriteStringValue(KDate) \o <<":">>
                     \o WriteStringValue(scalar.s) \o <<"}">>
            ELSE WriteStringValue(scalar.s)

\* the entries of an object or array, with entry_sep between them
RECURSIVE JoinComma(_)
JoinComma(parts) ==
    IF parts = <<>> THEN <<>>
    ELSE IF Len(parts) = 1 THEN parts[1]
    ELSE parts[1] \o <<",">> \o JoinComma(Tail(parts))

RECURSIVE WriteNode(_, _)
RECURSIVE WritePropertyValue(_, _)
RECURSIVE WriteEq(_, _)

\* write_array
WriteArray(arr, wire) ==
    <<"[">> \o JoinComma([i \in 1..Len(arr) |-> WritePropertyValue(arr[i], wire)])
        \o <<"]">>

\* write_properties: the entries in key order
WriteProperties(props, wire) ==
    <<"{">>
        \o JoinComma([i \in 1..Len(SortedKeys(DOMAIN props)) |->
                         WriteKey(SortedKeys(DOMAIN props)[i])
                             \o WritePropertyValue(props[SortedKeys(DOMAIN props)[i]], wire)])
        \o <<"}">>

WriteEq(eq, wire) ==
    CASE eq.k = "Scalar" -> WriteScalar(eq.sc, wire)
      [] eq.k = "Array" -> WriteArray(eq.arr, wire)
      [] eq.k = "EnvRef" ->
            <<"{">> \o WriteKey(KEnv) \o WriteStringValue(eq.name) \o <<"}">>

WritePropertyValue(pv, wire) ==
    IF pv.pv = "Node" THEN WriteNode(pv.node, wire)
    ELSE <<"{">> \o WriteKey(KLinkTo) \o WriteStringValue(pv.link) \o <<"}">>

WriteNode(node, wire) ==
    <<"{">>
        \o JoinComma((IF node.deleted THEN <<WriteKey(KDeleted) \o LTrue>> ELSE <<>>)
                     \o (IF node.eq.k # "None"
                         THEN <<WriteKey(KEq) \o WriteEq(node.eq, wire)>> ELSE <<>>)
                     \o (IF node.hasProps
                         THEN <<WriteKey(KProperties) \o WriteProperties(node.props, wire)>>
                         ELSE <<>>))
        \o <<"}">>

\* to_wire
ToWire(node) == WriteNode(node, TRUE)

---------------------------------------------------------------------------
(* from_json.rs: JsonParser.  A result is JOk(pos, val) or JErr(message);   *)
(* positions are 0-based as in the source.                                  *)

JOk(pos, val) == [ok |-> TRUE, pos |-> pos, val |-> val]

JErr(message) == [ok |-> FALSE, message |-> message]

RECURSIVE JSkipWs(_, _)
JSkipWs(inp, pos) ==
    IF PeekChar(inp, pos) \in {" ", "\t", "\n", "\r"} THEN JSkipWs(inp, pos + 1)
    ELSE pos

\* peek: the character after white space
JPeek(inp, pos) == PeekChar(inp, JSkipWs(inp, pos))

JExpect(inp, pos, ch) ==
    IF PeekChar(inp, JSkipWs(inp, pos)) = ch THEN JOk(JSkipWs(inp, pos) + 1, TRUE)
    ELSE JErr("Expected '" \o ch \o "'")

\* the escapes of parse_string other than \u (the writer emits \u only for
\* control characters, which no string of the model holds)
JUnescape(esc) ==
    CASE esc = "\"" -> "\""
      [] esc = "\\" -> "\\"
      [] esc = "/" -> "/"
      [] esc = "n" -> "\n"
      [] esc = "r" -> "\r"
      [] esc = "t" -> "\t"
      [] esc = "b" -> Backspace
      [] esc = "f" -> FormFeed

\* the loop of parse_string, after the opening quote
RECURSIVE JStringBody(_, _, _)
JStringBody(inp, pos, s) ==
    IF pos >= Len(inp) THEN JErr("Unterminated string")
    ELSE IF inp[pos + 1] = "\"" THEN JOk(pos + 1, s)
    ELSE IF inp[pos + 1] = "\\"
    THEN IF pos + 1 >= Len(inp) THEN JErr("Unexpected end of input in string escape")
         ELSE IF inp[pos + 2] \in {"\"", "\\", "/", "n", "r", "t", "b", "f"}
         THEN JStringBody(inp, pos + 2, Append(s, JUnescape(inp[pos + 2])))
         ELSE CASE inp[pos + 2] # "u" -> JErr("Unknown escape")
    ELSE JStringBody(inp, pos + 1, Append(s, inp[pos + 1]))

JStringOpen(inp, r) == IF ~r.ok THEN r ELSE JStringBody(inp, r.pos, <<>>)

JParseString(inp, pos) == JStringOpen(inp, JExpect(inp, pos, "\""))

RECURSIVE JConsumeDigits(_, _)
JConsumeDigits(inp, pos) ==
    IF IsAsciiDigit(PeekChar(inp, pos)) THEN JConsumeDigits(inp, pos + 1) ELSE pos

\* the scan of parse_number from `start`: sign, digits, fraction, exponent
JNumberSign(inp, start) == IF PeekChar(inp, start) = "-" THEN start + 1 ELSE start

JNumberFraction(inp, pos) ==
    IF PeekChar(inp, pos) = "." THEN JConsumeDigits(inp, pos + 1) ELSE pos

JNumberExponent(inp, pos) ==
    IF PeekChar(inp, pos) \in {"e", "E"}
    THEN JConsumeDigits(inp, IF PeekChar(inp, pos + 1) \in {"+", "-"}
                             THEN pos + 2 ELSE pos + 1)
    ELSE pos

JNumberEnd(inp, start) ==
    JNumberExponent(inp, JNumberFraction(inp, JConsumeDigits(inp, JNumberSign(inp, start))))

\* str::parse::<f64> accepts the scanned text: it has a digit in the
\* mantissa and, after an `e`, a digit in the exponent
JNumberParses(num_str) ==
    LET e == FirstIndexOf(num_str, {"e", "E"})
    IN /\ \E i \in 1..(e - 1) : IsAsciiDigit(num_str[i])
       /\ e <= Len(num_str) => IsAsciiDigit(Last(num_str))

JNumberText(inp, start, end) ==
    IF JNumberParses(Slice(inp, start, end)) THEN JOk(end, F64FromStr(Slice(inp, start, end)))
    ELSE JErr("Invalid number")

JParseNumber(inp, pos) ==
    JNumberText(inp, JSkipWs(inp, pos), JNumberEnd(inp, JSkipWs(inp, pos)))

JParseLiteral(inp, pos, expected) ==
    IF pos + Len(expected) > Len(inp) THEN JErr("Unexpected end of input")
    ELSE IF Slice(inp, pos, pos + Len(expected)) = expected THEN JOk(pos + Len(expected), TRUE)
    ELSE JErr("Unexpected token")

\* r, with its value wrapped by a constructor
JThenString(r) == IF ~r.ok THEN r ELSE JOk(r.pos, ScString(r.val))
JThenNumber(r) == IF ~r.ok THEN r ELSE JOk(r.pos, ScNumber(r.val))
JThenBoolean(r, b) == IF ~r.ok THEN r ELSE JOk(r.pos, ScBoolean(b))
JThenDate(r, value) == IF ~r.ok THEN r ELSE JOk(r.pos, ScDate(value))
JThenEqScalar(r) == IF ~r.ok THEN r ELSE JOk(r.pos, EqScalar(r.val))
JThenEqArray(r) == IF ~r.ok THEN r ELSE JOk(r.pos, EqArray(r.val))

\* parse_scalar
JParseScalar(inp, pos) ==
    CASE JPeek(inp, pos) = "\"" -> JThenString(JParseString(inp, pos))
      [] JPeek(inp, pos) = "t" ->
            JThenBoolean(JParseLiteral(inp, JSkipWs(inp, pos), LTrue), TRUE)
      [] JPeek(inp, pos) = "f" ->
            JThenBoolean(JParseLiteral(inp, JSkipWs(inp, pos), LFalse), FALSE)
      [] JPeek(inp, pos) = "-" \/ IsAsciiDigit(JPeek(inp, pos)) ->
            JThenNumber(JParseNumber(inp, pos))
      [] JPeek(inp, pos) = NoChar -> JErr("Unexpected end of input when parsing scalar")
      [] OTHER -> JErr("Unexpected character when parsing scalar")

\* parse_date_wrapper
JDateValue(inp, r) ==
    IF ~r.ok THEN r ELSE JThenDate(JExpect(inp, r.pos, "}"), r.val)

JDateColon(inp, r) == IF ~r.ok THEN r ELSE JDateValue(inp, JParseString(inp, r.pos))

JDateKey(inp, key) ==
    IF ~key.ok THEN key
    ELSE IF key.val # KDate THEN JErr("Expected \"$date\" key")
    ELSE JDateColon(inp, JExpect(inp, key.pos, ":"))

JDateOpen(inp, r) == IF ~r.ok THEN r ELSE JDateKey(inp, JParseString(inp, r.pos))

JParseDateWrapper(inp, pos) == JDateOpen(inp, JExpect(inp, pos, "{"))

\* skip_json_value and its two loops
RECURSIVE JSkipValue(_, _)
RECURSIVE JSkipMembers(_, _)
RECURSIVE JSkipItems(_, _)

JSkipClose(inp, r, close) == IF ~r.ok THEN r ELSE JExpect(inp, r.pos, close)

JSkipMemberValue(inp, r) ==
    IF ~r.ok THEN r
    ELSE IF PeekChar(inp, JSkipWs(inp, r.pos)) = "," THEN JSkipMembers(inp, JSkipWs(inp, r.pos) + 1)
    ELSE r

JSkipMemberColon(inp, r) == IF ~r.ok THEN r ELSE JSkipMemberValue(inp, JSkipValue(inp, r.pos))

JSkipMemberKey(inp, r) == IF ~r.ok THEN r ELSE JSkipMemberColon(inp, JExpect(inp, r.pos, ":"))

JSkipMembers(inp, pos) == JSkipMemberKey(inp, JParseString(inp, pos))

JSkipItem(inp, r) ==
    IF ~r.ok THEN r
    ELSE IF PeekChar(inp, JSkipWs(inp, r.pos)) = "," THEN JSkipItems(inp, JSkipWs(inp, r.pos) + 1)
    ELSE r

JSkipItems(inp, pos) == JSkipItem(inp, JSkipValue(inp, pos))

JSkipValue(inp, pos) ==
    CASE JPeek(inp, pos) = "\"" -> JParseString(inp, pos)
      [] JPeek(inp, pos) = "{" ->
            IF JPeek(inp, JSkipWs(inp, pos) + 1) = "}"
            THEN JExpect(inp, JSkipWs(inp, pos) + 1, "}")
            ELSE JSkipClose(inp, JSkipMembers(inp, JSkipWs(inp, pos) + 1), "}")
      [] JPeek(inp, pos) = "[" ->
            IF JPeek(inp, JSkipWs(inp, pos) + 1) = "]"
            THEN JExpect(inp, JSkipWs(inp, pos) + 1, "]")
            ELSE JSkipClose(inp, JSkipItems(inp, JSkipWs(inp, pos) + 1), "]")
      [] JPeek(inp, pos) = "t" -> JParseLiteral(inp, JSkipWs(inp, pos), LTrue)
      [] JPeek(inp, pos) = "f" -> JParseLiteral(inp, JSkipWs(inp, pos), LFalse)
      [] JPeek(inp, pos) = "n" -> JParseLiteral(inp, JSkipWs(inp, pos), LNull)
      [] JPeek(inp, pos) = "-" \/ IsAsciiDigit(JPeek(inp, pos)) -> JParseNumber(inp, pos)
      [] JPeek(inp, pos) = NoChar -> JErr("Unexpected end of input")
      [] OTHER -> JErr("Unexpected character")

\* the locals of parse_value
JFields(eq, hasProps, props, deleted, hasLink, link_to) ==
    [eq |-> eq, hasProps |-> hasProps, props |-> props, deleted |-> deleted,
     hasLink |-> hasLink, link_to |-> link_to]

JNoFields == JFields(EqNone, FALSE, EmptyMap, FALSE, FALSE, <<>>)

JSetField(f, key, val) ==
    CASE key = KLinkTo -> [f EXCEPT !.hasLink = TRUE, !.link_to = val]
      [] key = KDeleted -> [f EXCEPT !.deleted = TRUE]
      [] key = KEq -> [f EXCEPT !.eq = val]
      [] key = KProperties -> [f EXCEPT !.hasProps = TRUE, !.props = val]
      [] OTHER -> f

RECURSIVE JParseValue(_, _, _)
RECURSIVE JValueLoop(_, _, _, _)
RECURSIVE JArrayLoop(_, _, _, _)
RECURSIVE JPropertiesLoop(_, _, _, _)

\* parse_array
JArrayClose(r, arr) == IF ~r.ok THEN r ELSE JOk(r.pos, arr)

JArrayItem(inp, r, arr, wire) ==
    IF ~r.ok THEN r
    ELSE IF PeekChar(inp, JSkipWs(inp, r.pos)) = ","
    THEN JArrayLoop(inp, JSkipWs(inp, r.pos) + 1, Append(arr, r.val), wire)
    ELSE JArrayClose(JExpect(inp, r.pos, "]"), Append(arr, r.val))

JArrayLoop(inp, pos, arr, wire) == JArrayItem(inp, JParseValue(inp, pos, wire), arr, wire)

JArrayOpen(inp, r, wire) ==
    IF ~r.ok THEN r
    ELSE IF JPeek(inp, r.pos) = "]" THEN JArrayClose(JExpect(inp, r.pos, "]"), <<>>)
    ELSE JArrayLoop(inp, r.pos, <<>>, wire)

JParseArray(inp, pos, wire) == JArrayOpen(inp, JExpect(inp, pos, "["), wire)

\* parse_properties
JPropertiesClose(r, map) == IF ~r.ok THEN r ELSE JOk(r.pos, map)

JPropertiesValue(inp, key, r, map, wire) ==
    IF ~r.ok THEN r
    ELSE IF PeekChar(inp, JSkipWs(inp, r.pos)) = ","
    THEN JPropertiesLoop(inp, JSkipWs(inp, r.pos) + 1, (key :> r.val) @@ map, wire)
    ELSE JPropertiesClose(JExpect(inp, r.pos, "}"), (key :> r.val) @@ map)

JPropertiesColon(inp, key, r, map, wire) ==
    IF ~r.ok THEN r
    ELSE JPropertiesValue(inp, key, JParseValue(inp, r.pos, wire), map, wire)

JPropertiesKey(inp, key, map, wire) ==
    IF ~key.ok THEN key
    ELSE JPropertiesColon(inp, key.val, JExpect(inp, key.pos, ":"), map, wire)

JPropertiesLoop(inp, pos, map, wire) ==
    JPropertiesKey(inp, JParseString(inp, pos), map, wire)

JPropertiesOpen(inp, r, wire) ==
    IF ~r.ok THEN r
    ELSE IF JPeek(inp, r.pos) = "}" THEN JPropertiesClose(JExpect(inp, r.pos, "}"), EmptyMap)
    ELSE JPropertiesLoop(inp, r.pos, EmptyMap, wire)

JParseProperties(inp, pos, wire) == JPropertiesOpen(inp, JExpect(inp, pos, "{"), wire)

\* parse_eq
JParseEq(inp, pos, wire) ==
    IF JPeek(inp, pos) = "[" THEN JThenEqArray(JParseArray(inp, pos, wire))
    ELSE IF JPeek(inp, pos) = "{" /\ wire THEN JThenEqScalar(JParseDateWrapper(inp, pos))
    ELSE JThenEqScalar(JParseScalar(inp, pos))

\* parse_value
JValueClose(r, f) ==
    IF ~r.ok THEN r
    ELSE JOk(r.pos, IF f.hasLink THEN PvRef(f.link_to)
                    ELSE PvNode(MkNode(f.eq, f.hasProps, f.props, f.deleted)))

JValueMember(inp, key, r, f, wire) ==
    IF ~r.ok THEN r
    ELSE IF PeekChar(inp, JSkipWs(inp, r.pos)) = ","
    THEN JValueLoop(inp, JSkipWs(inp, r.pos) + 1, JSetField(f, key, r.val), wire)
    ELSE JValueClose(JExpect(inp, r.pos, "}"), JSetField(f, key, r.val))

JValueColon(inp, key, r, f, wire) ==
    IF ~r.ok THEN r
    ELSE CASE key = KLinkTo -> JValueMember(inp, key, JParseString(inp, r.pos), f, wire)
           [] key = KDeleted ->
                 JValueMember(inp, key, JParseLiteral(inp, JSkipWs(inp, r.pos), LTrue), f, wire)
           [] key = KEq -> JValueMember(inp, key, JParseEq(inp, r.pos, wire), f, wire)
           [] key = KProperties ->
                 JValueMember(inp, key, JParseProperties(inp, r.pos, wire), f, wire)
           [] OTHER -> JValueMember(inp, key, JSkipValue(inp, r.pos), f, wire)

JValueKey(inp, key, f, wire) ==
    IF ~key.ok THEN key
    ELSE JValueColon(inp, key.val, JExpect(inp, key.pos, ":"), f, wire)

JValueLoop(inp, pos, f, wire) == JValueKey(inp, JParseString(inp, pos), f, wire)

JValueOpen(inp, r, wire) ==
    IF ~r.ok THEN r
    ELSE IF JPeek(inp, r.pos) = "}" THEN JValueClose(JExpect(inp, r.pos, "}"), JNoFields)
    ELSE JValueLoop(inp, r.pos, JNoFields, wire)

JParseValue(inp, pos, wire) == JValueOpen(inp, JExpect(inp, pos, "{"), wire)

\* parse_node
JTopLevel(r) ==
    IF ~r.ok THEN r
    ELSE IF r.val.pv = "Ref" THEN JErr("Expected a MOTLYValue at top level, got a Ref")
    ELSE JOk(r.pos, r.val.node)

JParseNode(inp, pos, wire) == JTopLevel(JParseValue(inp, pos, wire))

\* the tail of from_json and from_wire
JTrailing(inp, r) ==
    IF ~r.ok THEN r
    ELSE IF JSkipWs(inp, r.pos) < Len(inp) THEN JErr("Trailing content")
    ELSE r

\* from_wire
FromWire(input_) == JTrailing(input_, JParseNode(input_, 0, TRUE))

\* from_json
FromJson(input_) == JTrailing(input_, JParseNode(input_, 0, FALSE))

\* to_json
ToJson(node) == WriteNode(node, FALSE)

---------------------------------------------------------------------------
(* The wire round trip: a tree built by statements, to_wire, from_wire.     *)

MaxWireSteps == 2

ne == <<"e">>

\* a string with the characters write_string_value escapes
Quoted == <<"a", "\"", "\\", "\n">>

IsoDate == <<"2", "0", "2", "4", "-", "0", "1", "-", "1", "5">>

WireStmts ==
    { SetEq(<<na>>, VString(<<"h", "i">>), FALSE, NoProps),           \* a = hi
      SetEq(<<na>>, VString(Quoted), FALSE, NoProps),                 \* a = "a\"\\\n"
      SetEq(<<nb>>, VNumber(Dec(1000, 0)), FALSE, NoProps),           \* b = 1000
      SetEq(<<nb>>, VNumber(Dec(0 - 2, 0)), FALSE, NoProps),          \* b = -2
      SetEq(<<nb>>, VNumber(Dec(15, 0 - 1)), FALSE, NoProps),         \* b = 1.5
      SetEq(<<nc>>, VBoolean(FALSE), FALSE, NoProps),                 \* c = @false
      SetEq(<<na>>, VDate(IsoDate), FALSE, NoProps),                  \* a = @2024-01-15
      SetEq(<<nb>>, VEnv(ne), FALSE, NoProps),                        \* b = @env.e
      SetEq(<<nc>>, Ref(1, <<SegName(na), SegIndex(0), SegName(nb)>>), \* c = $^a[0].b
            FALSE, NoProps),
      SetEq(<<na>>,                                      \* a = [hi, $b, @true { c = 2 }, []]
            VArray(<<ArrayElement(TRUE, VString(<<"h", "i">>), FALSE, NoProps),
                     ArrayElement(TRUE, Ref(0, <<SegName(nb)>>), FALSE, NoProps),
                     ArrayElement(TRUE, VBoolean(TRUE), TRUE,
                         <<SetEq(<<nc>>, VNumber(Dec(2, 0)), FALSE, NoProps)>>),
                     ArrayElement(TRUE, VArray(<<>>), FALSE, NoProps)>>),
            FALSE, NoProps),
      SetEq(<<na, nb>>, VNumber(Dec(1, 0)), FALSE, NoProps),          \* a.b = 1
      ReplaceProperties(<<nc>>, <<>>),                                \* c: { }
      Define(<<na>>, TRUE),                                           \* -a
      Define(<<nb, nc>>, TRUE) }                                      \* -b.c

Serialized == [kind |-> "ToWire"]
Deserialized == [kind |-> "FromWire"]

InitWire ==
    /\ root = NewNode
    /\ errors = <<>>
    /\ pre = NewNode
    /\ last = NoStmt
    /\ steps = 0
    /\ lastClone = NoClone
    /\ root0 = NewNode
    /\ listA = <<>>
    /\ listB = <<>>
    /\ input = <<>>
    /\ schema = NewNode
    /\ StoreUnused

\* one statement executed on the tree
WireExecute ==
    /\ last \notin {Serialized, Deserialized}
    /\ steps < MaxWireSteps
    /\ \E stmt \in WireStmts :
           /\ \E r \in {Execute(<<stmt>>, root)} : root' = r.node
           /\ last' = stmt
    /\ pre' = root
    /\ steps' = steps + 1
    /\ UNCHANGED <<errors, lastClone, root0, listA, listB, input, schema,
                   SESSIONS, NEXT_SESSION_ID, calls, stack>>

\* to_wire(&root): `input` is the text written
ToWireCall ==
    /\ last \notin {Serialized, Deserialized}
    /\ input' = ToWire(root)
    /\ last' = Serialized
    /\ UNCHANGED <<root, errors, pre, steps, lastClone, root0, listA, listB, schema,
                   SESSIONS, NEXT_SESSION_ID, calls, stack>>

\* from_wire(&input): `root0` is the tree read, `errors` the Err message
FromWireCall ==
    /\ last = Serialized
    /\ \E r \in {FromWire(input)} :
           /\ root0' = IF r.ok THEN r.val ELSE NewNode
           /\ errors' = IF r.ok THEN <<>> ELSE <<r.message>>
    /\ last' = Deserialized
    /\ UNCHANGED <<root, pre, steps, lastClone, listA, listB, input, schema,
                   SESSIONS, NEXT_SESSION_ID, calls, stack>>

NextWire == WireExecute \/ ToWireCall \/ FromWireCall

SpecWire == InitWire /\ [][NextWire]_vars

\* an EnvRef eq somewhere in the tree
RECURSIVE HasEnvRef(_)
HasEnvRef(node) ==
    \/ node.eq.k = "EnvRef"
    \/ /\ node.eq.k = "Array"
       /\ \E i \in 1..Len(node.eq.arr) :
              node.eq.arr[i].pv = "Node" /\ HasEnvRef(node.eq.arr[i].node)
    \/ \E key \in DOMAIN node.props :
           node.props[key].pv = "Node" /\ HasEnvRef(node.props[key].node)

\* C19: from_wire(to_wire(tree)) succeeds and is the tree written, whatever
\* the tree holds: string, number, boolean and date scalars, arrays,
\* environment references, Links, tombstones, nested properties.
C19_WireRoundTrip ==
    last = Deserialized => errors = <<>> /\ root0 = root

\* C19, for the trees that hold no environment reference: the round trip
\* gives the tree back.
C19_WithoutEnvRef ==
    last = Deserialized /\ ~HasEnvRef(root) => errors = <<>> /\ root0 = root

\* C19: what from_wire answers for a tree that holds an environment
\* reference: the Err of parse_date_wrapper.
C19_EnvRefRejected ==
    last = Deserialized /\ HasEnvRef(root) => errors = <<"Expected \"$date\" key">>

\* a round trip through a date, a tombstone and a Link at once
C19_WitnessRoundTrip ==
    /\ last = Deserialized
    /\ errors = <<>>
    /\ root0 = root
    /\ \E key \in DOMAIN root.props :
           root.props[key].pv = "Node" /\ root.props[key].node.deleted
    /\ \E key \in DOMAIN root.props : root.props[key].pv = "Ref"

\* a round trip attempted on a tree with an environment reference
C19_WitnessEnvRef ==
    /\ last = Deserialized
    /\ HasEnvRef(root)
    /\ errors # <<>>

---------------------------------------------------------------------------
(* parse_motly on sources that assign a reference with index groups.        *)

MaxRefFrags == 3

\* `b=$a`
RefHead == <<"b", "=", "$", "a">>

RefFragments ==
    { IndexKey(0), IndexKey(1),             \* [0]  [1]
      <<".", "b">>,                         \* .b
      <<"[", " ", "1", " ", "]">>,          \* [ 1 ]
      <<"[", "]">>,                         \* []
      <<" ">> }

\* RefHead followed by at most n fragments
RECURSIVE RefSources(_)
RefSources(n) ==
    IF n = 0 THEN {RefHead}
    ELSE RefSources(n - 1) \cup {s \o f : s \in RefSources(n - 1), f \in RefFragments}

InitParseRef ==
    /\ root0 \in SeedRoots
    /\ input \in RefSources(MaxRefFrags)
    /\ schema = NewNode
    /\ root = root0
    /\ errors = <<>>
    /\ pre = root0
    /\ last = NoStmt
    /\ steps = 0
    /\ lastClone = NoClone
    /\ listA = <<>>
    /\ listB = <<>>
    /\ StoreUnused

SpecParseRef == InitParseRef /\ [][NextParse]_vars

\* the statement `b = $a<path after a>`
RefStatement(indices) ==
    SetEq(<<nb>>, Ref(0, <<SegName(na)>> \o indices), FALSE, NoProps)

\* C20: a reference whose path segment is followed by more than one index,
\* as in `b=$a[0][1]`, is accepted, and its Reference path holds the name
\* followed by every index in order.
C20_SeveralIndices ==
    \A i, j \in 0..1 :
        (steps = 1 /\ input = RefHead \o IndexKey(i) \o IndexKey(j)) =>
            /\ Parse(input).ok
            /\ Parse(input).val = <<RefStatement(<<SegIndex(i), SegIndex(j)>>)>>
            /\ errors = <<>>

\* C20, as parse_reference behaves: a second index after a segment is a
\* syntax error, and parse_motly applies nothing.
C20_SecondIndexRejected ==
    \A i, j \in 0..1 :
        (steps = 1 /\ input = RefHead \o IndexKey(i) \o IndexKey(j)) =>
            /\ ~Parse(input).ok
            /\ Len(errors) = 1
            /\ errors[1].code = "tag-parse-syntax-error"
            /\ root = root0

\* C20, one index per segment: the path holds each name and its index in
\* order.
C20_OneIndexPerSegment ==
    \A i, j \in 0..1 :
        (steps = 1 /\ input = RefHead \o IndexKey(i) \o <<".", "b">> \o IndexKey(j)) =>
            /\ Parse(input).ok
            /\ Parse(input).val =
                  <<RefStatement(<<SegIndex(i), SegName(nb), SegIndex(j)>>)>>

\* parse_motly has run on `b=$a[0][1]`
C20_WitnessSeveral ==
    steps = 1 /\ input = RefHead \o IndexKey(0) \o IndexKey(1)

\* parse_motly has run on `b=$a[0].b[1]` and set a Link
C20_WitnessOnePerSegment ==
    /\ steps = 1
    /\ input = RefHead \o IndexKey(0) \o <<".", "b">> \o IndexKey(1)
    /\ errors = <<>>
    /\ nb \in DOMAIN root.props
    /\ root.props[nb].pv = "Ref"

---------------------------------------------------------------------------
(* parse_motly on sources that hold one quoted string with escapes.         *)

MaxStrFrags == 3

\* `\uD83D`, `\uDE00`: the surrogate pair of U+1F600
HighEscape == <<"\\", "u", "D", "8", "3", "D">>
LowEscape == <<"\\", "u", "D", "E", "0", "0">>

\* `a` (a) and `é`
LetterEscape == <<"\\", "u", "0", "0", "6", "1">>
LatinEscape == <<"\\", "u", "0", "0", "e", "9">>

StrFragments == {HighEscape, LowEscape, LetterEscape, LatinEscape, <<"\\", "n">>, <<"b">>}

\* the concatenations of at most n fragments
RECURSIVE StrBodies(_)
StrBodies(n) ==
    IF n = 0 THEN {<<>>}
    ELSE StrBodies(n - 1) \cup {s \o f : s \in StrBodies(n - 1), f \in StrFragments}

\* the strings that take escapes, and the raw ones
StrForms == {"double", "triple", "backtick"}
RawForms == {"single", "heredoc"}

\* a=" body "     a=""" body """     ` body `=1     a=' body '
\* and the heredoc of the one line ` body`
Quote(form, body) ==
    CASE form = "double" -> <<"a", "=", "\"">> \o body \o <<"\"">>
      [] form = "triple" -> <<"a", "=">> \o TripleQuote \o body \o TripleQuote
      [] form = "backtick" -> <<"BQ">> \o body \o <<"BQ", "=", "1">>
      [] form = "single" -> <<"a", "=", "'">> \o body \o <<"'">>
      [] form = "heredoc" ->
            <<"a", "=", "<", "<", "<", "\n", " ">> \o body \o <<"\n", ">", ">", ">">>

\* the statement of Quote(form, body) when the body denotes the string s
QuoteStatement(form, s) ==
    IF form = "backtick" THEN SetEq(<<s>>, VNumber(Dec(1, 0)), FALSE, NoProps)
    ELSE SetEq(<<na>>, VString(s), FALSE, NoProps)

InitParseStr ==
    /\ root0 \in SeedRoots
    /\ input \in {Quote(form, body) : form \in StrForms \cup RawForms,
                                      body \in StrBodies(MaxStrFrags)}
    /\ schema = NewNode
    /\ root = root0
    /\ errors = <<>>
    /\ pre = root0
    /\ last = NoStmt
    /\ steps = 0
    /\ lastClone = NoClone
    /\ listA = <<>>
    /\ listB = <<>>
    /\ StoreUnused

SpecParseStr == InitParseStr /\ [][NextParse]_vars

\* U+FFFD and U+1F600 = 0x10000 + ((0xD83D - 0xD800) << 10) + (0xDE00 - 0xDC00)
ReplacementChar == CharFromU32(65533)
PairChar == CharFromU32(65536 + (HexValue(<<"D", "8", "3", "D">>) - 55296) * 1024
                              + (HexValue(<<"D", "E", "0", "0">>) - 56320))

\* C21: in double-quoted, triple-quoted and backtick strings a high
\* surrogate escape followed by a low surrogate escape is one code point,
\* a surrogate escape outside such a pair is U+FFFD, and neither is a
\* syntax error.
C21_SurrogateEscapes ==
    \A form \in StrForms :
        /\ (steps = 1 /\ input = Quote(form, HighEscape \o LowEscape)) =>
               /\ Parse(input).ok
               /\ Parse(input).val = <<QuoteStatement(form, <<PairChar>>)>>
        /\ \A lone \in {HighEscape, LowEscape} :
               (steps = 1 /\ input = Quote(form, lone)) =>
                   /\ Parse(input).ok
                   /\ Parse(input).val = <<QuoteStatement(form, <<ReplacementChar>>)>>

\* a surrogate escape somewhere in the body
HasSurrogateEscape(body) ==
    \E i \in 1..(Len(body) - 5) :
        SubSeq(body, i, i + 5) \in {HighEscape, LowEscape}

\* C21, as parse_escape_char behaves: any surrogate escape, paired or not,
\* is a syntax error and parse_motly applies nothing.
C21_SurrogateRejected ==
    \A form \in StrForms, body \in StrBodies(MaxStrFrags) :
        (steps = 1 /\ input = Quote(form, body) /\ HasSurrogateEscape(body)) =>
            /\ ~Parse(input).ok
            /\ errors = <<SyntaxError("Invalid unicode code point")>>
            /\ root = root0

\* C21: escapes of code points that are no surrogates are decoded, in all
\* three kinds of string.
C21_OtherEscapesDecoded ==
    \A form \in StrForms :
        (steps = 1 /\ input = Quote(form, LetterEscape \o LatinEscape \o <<"\\", "n">>)) =>
            /\ Parse(input).ok
            /\ Parse(input).val = <<QuoteStatement(form, <<"a", CharFromU32(233), "\n">>)>>
            /\ errors = <<>>

\* parse_motly has run on a backtick name holding a surrogate pair
C21_WitnessPair ==
    steps = 1 /\ input = Quote("backtick", HighEscape \o LowEscape)

\* parse_motly has run on `a="aé\n"` and set a
C21_WitnessDecoded ==
    /\ steps = 1
    /\ input = Quote("double", LetterEscape \o LatinEscape \o <<"\\", "n">>)
    /\ na \in DOMAIN root.props
    /\ root.props[na].pv = "Node"
    /\ root.props[na].node.eq = EqScalar(ScString(<<"a", CharFromU32(233), "\n">>))

---------------------------------------------------------------------------
(* parse_motly on every source of the three families above.                 *)

InitParseAny == InitParse \/ InitParseRef \/ InitParseStr

SpecParseAny == InitParseAny /\ [][NextParse]_vars

\* C22: parse returns on every input, with either a statement list and the
\* whole input consumed or exactly one error, and a parse_statement call
\* that succeeds has advanced by at least one byte (so the statement loop,
\* whose position never passes the end of the input, ends).
C22_ParseTotal ==
    steps = 1 =>
        /\ Parse(input).ok => Parse(input).pos = Len(input)
        /\ ~Parse(input).ok => Len(errors) = 1
        /\ \A pos \in 0..Len(input) :
               ParseStatement(input, pos).ok =>
                   /\ ParseStatement(input, pos).pos > pos
                   /\ ParseStatement(input, pos).pos <= Len(input)

\* the raw strings keep their backslashes: `a=' body '` and the heredoc
\* give the body as written (the heredoc without its indentation and with
\* a final newline)
C22_RawStrings ==
    \A body \in StrBodies(MaxStrFrags) :
        /\ (steps = 1 /\ input = Quote("single", body)) =>
               Parse(input).ok /\ Parse(input).val = <<QuoteStatement("single", body)>>
        /\ (steps = 1 /\ input = Quote("heredoc", body)) =>
               /\ Parse(input).ok
               /\ Parse(input).val = <<QuoteStatement("heredoc", body \o <<"\n">>)>>

\* a source of three statements, one in a block, parsed to the end
C22_Witness ==
    /\ steps = 1
    /\ Parse(input).ok
    /\ Parse(input).pos = Len(input)
    /\ \E i \in 1..Len(Parse(input).val) :
           /\ Parse(input).val[i].kind = "ReplaceProperties"
           /\ Parse(input).val[i].properties # <<>>

\* a heredoc parsed to the end
C22_WitnessHeredoc ==
    /\ steps = 1
    /\ input = Quote("heredoc", <<"b", "\\", "n">>)
    /\ Parse(input).ok
    /\ Parse(input).pos = Len(input)

\* a source that ends in an error after statements that parsed
C22_WitnessError ==
    /\ steps = 1
    /\ ~Parse(input).ok
    /\ Len(errors) = 1
    /\ ParseStatement(input, 0).ok

---------------------------------------------------------------------------
(* lib.rs: the session store. Every wasm_session_* function is one action; *)
(* the source texts are short MOTLY documents and schemas, one schema with *)
(* a syntax error. A behaviour starts from a store that earlier calls      *)
(* left: no session, session 1, or sessions 1 and 2.                       *)

MaxSessions == 2
MaxCalls == 3

SessionIds == 1..MaxSessions

\* Session { value, schema }, schema None or Some(node)
NoSchema == [some |-> FALSE]
SomeSchema(node) == [some |-> TRUE, node |-> node]
Session(value, schema_) == [value |-> value, schema |-> schema_]

\* a=1 and b=1
SrcA == <<"a", "=", "1">>
SrcB == <<"b", "=", "1">>
ValueSources == {SrcA, SrcB}

\* Required:{a=number}
SchemaRequiresA == KRequired \o <<":", "{", "a", "=">> \o TNumber \o <<"}">>

\* Required:{  -- the block is not closed
SchemaUnclosed == KRequired \o <<":", "{">>

SchemaSources == {SchemaRequiresA, SchemaUnclosed}

coreVars ==
    <<root, errors, pre, last, steps, lastClone, root0, listA, listB, input,
      schema, stack>>

SeedValues == {NewNode, ParseMotly(SrcA, NewNode).value}

SeedSchemas ==
    {NoSchema, SomeSchema(ParseMotly(SchemaRequiresA, NewNode).value)}

SeedStores ==
    {NoSessions}
        \cup {(1 :> Session(v, s)) : v \in SeedValues, s \in SeedSchemas}
        \cup {(1 :> Session(v, s)) @@ (2 :> Session(w, t)) :
                  v \in SeedValues, s \in SeedSchemas,
                  w \in SeedValues, t \in SeedSchemas}

InitSession ==
    /\ root = NewNode
    /\ errors = <<>>
    /\ pre = NewNode
    /\ last = NoStmt
    /\ steps = 0
    /\ lastClone = NoClone
    /\ root0 = NewNode
    /\ listA = <<>>
    /\ listB = <<>>
    /\ input = <<>>
    /\ schema = NewNode
    /\ SESSIONS \in SeedStores
    /\ NEXT_SESSION_ID = Cardinality(DOMAIN SESSIONS) + 1
    /\ calls = <<>>
    /\ stack = <<>>

\* one call, with the store it found and what it returned
Called(op, id, src, reply) ==
    /\ Len(calls) < MaxCalls
    /\ calls' = Append(calls, [op |-> op, id |-> id, src |-> src,
                               before |-> SESSIONS, reply |-> reply])
    /\ UNCHANGED coreVars

\* s.remove(&id)
MapRemove(m, key) == [k \in (DOMAIN m) \ {key} |-> m[k]]

\* wasm_session_new
SessionNew ==
    /\ NEXT_SESSION_ID <= MaxSessions
    /\ SESSIONS' = MapInsert(SESSIONS, NEXT_SESSION_ID, Session(NewNode, NoSchema))
    /\ NEXT_SESSION_ID' = NEXT_SESSION_ID + 1
    /\ Called("new", NEXT_SESSION_ID, <<>>, NEXT_SESSION_ID)

\* session.value = result.value
WithValue(session, value) == Session(value, session.schema)

\* wasm_session_parse
SessionParse ==
    \E id \in SessionIds, src \in ValueSources :
        /\ UNCHANGED NEXT_SESSION_ID
        /\ IF id \in DOMAIN SESSIONS
           THEN \E result \in {ParseMotly(src, SESSIONS[id].value)} :
                    /\ SESSIONS' = [SESSIONS EXCEPT
                                        ![id] = WithValue(@, result.value)]
                    /\ Called("parse", id, src, result.errors)
           ELSE /\ UNCHANGED SESSIONS
                /\ Called("parse", id, src, <<>>)

\* session.schema = Some(result.value)
WithSchema(session, result) == Session(session.value, SomeSchema(result.value))

\* wasm_session_parse_schema
SessionParseSchema ==
    \E id \in SessionIds, src \in SchemaSources :
        \E result \in {ParseMotly(src, NewNode)} :
            /\ UNCHANGED NEXT_SESSION_ID
            /\ SESSIONS' = IF id \in DOMAIN SESSIONS
                           THEN [SESSIONS EXCEPT ![id] = WithSchema(@, result)]
                           ELSE SESSIONS
            /\ Called("parse_schema", id, src, result.errors)

\* mutant of the reset: the schema is dropped with the value
ResetSessionAndSchema(session) == Session(NewNode, NoSchema)

\* session.value = MOTLYNode::new()
ResetSession(session) == Session(NewNode, session.schema)

\* wasm_session_reset
SessionReset ==
    \E id \in SessionIds :
        /\ UNCHANGED NEXT_SESSION_ID
        /\ SESSIONS' = IF id \in DOMAIN SESSIONS
                       THEN [SESSIONS EXCEPT ![id] = ResetSession(@)]
                       ELSE SESSIONS
        /\ Called("reset", id, <<>>, <<>>)

\* the errors wasm_session_validate_schema serializes
SessionSchemaErrors(sessions, id) ==
    IF id \in DOMAIN sessions /\ sessions[id].schema.some
    THEN ValidateSchema(sessions[id].value, sessions[id].schema.node)
    ELSE <<>>

\* wasm_session_validate_schema
SessionValidateSchema ==
    \E id \in SessionIds :
        /\ UNCHANGED <<SESSIONS, NEXT_SESSION_ID>>
        /\ Called("validate_schema", id, <<>>, SessionSchemaErrors(SESSIONS, id))

\* wasm_session_free
SessionFree ==
    \E id \in SessionIds :
        /\ UNCHANGED NEXT_SESSION_ID
        /\ SESSIONS' = MapRemove(SESSIONS, id)
        /\ Called("free", id, <<>>, <<>>)

NextSession ==
    \/ SessionNew
    \/ SessionParse
    \/ SessionParseSchema
    \/ SessionReset
    \/ SessionValidateSchema
    \/ SessionFree

SpecSession == InitSession /\ [][NextSession]_vars

\* the store after the i-th call
StoreAfter(i) == IF i = Len(calls) THEN SESSIONS ELSE calls[i + 1].before

\* the i-th call is `op` on a session the store holds
IsCallOn(i, op) ==
    /\ calls[i].op = op
    /\ calls[i].id \in DOMAIN calls[i].before

\* the j-th call is the first call after the i-th on the same session
NextOnSame(i, j) ==
    /\ j > i
    /\ calls[j].id = calls[i].id
    /\ \A k \in (i + 1)..(j - 1) : calls[k].id # calls[i].id

\* C23: a reset of a session the store holds leaves that session with the
\* empty node as its value and with the schema it had; the set of sessions
\* and every other session stay as they were; if the next call on the
\* session is a parse, its source is folded into the empty node, and a
\* validate-schema after that reports the errors of the value against the
\* schema kept (none if there is no schema).
C23_ResetKeepsSchema ==
    \A i \in 1..Len(calls) :
        IsCallOn(i, "reset") =>
            /\ DOMAIN StoreAfter(i) = DOMAIN calls[i].before
            /\ StoreAfter(i)[calls[i].id].value = NewNode
            /\ StoreAfter(i)[calls[i].id].schema
                   = calls[i].before[calls[i].id].schema
            /\ \A other \in DOMAIN calls[i].before \ {calls[i].id} :
                   StoreAfter(i)[other] = calls[i].before[other]
            /\ \A j \in 1..Len(calls) :
                   (NextOnSame(i, j) /\ calls[j].op = "parse") =>
                       /\ StoreAfter(j)[calls[i].id].value
                              = ParseMotly(calls[j].src, NewNode).value
                       /\ \A k \in 1..Len(calls) :
                              (NextOnSame(j, k) /\ calls[k].op = "validate_schema") =>
                                  calls[k].reply
                                      = IF calls[i].before[calls[i].id].schema.some
                                        THEN ValidateSchema(
                                                 ParseMotly(calls[j].src, NewNode).value,
                                                 calls[i].before[calls[i].id].schema.node)
                                        ELSE <<>>

\* session 1 held a=1 and the schema Required:{a=number}; it is reset, b=1
\* is parsed into it, and validate-schema reports errors against that
\* schema, while session 2 kept its value
C23_Witness ==
    /\ Len(calls) = 3
    /\ IsCallOn(1, "reset")
    /\ calls[1].id = 1
    /\ calls[1].before[1].value # NewNode
    /\ calls[1].before[1].schema.some
    /\ 2 \in DOMAIN SESSIONS
    /\ SESSIONS[2].value # NewNode
    /\ calls[2].op = "parse" /\ calls[2].id = 1 /\ calls[2].src = SrcB
    /\ calls[3].op = "validate_schema" /\ calls[3].id = 1
    /\ calls[3].reply # <<>>
    /\ DOMAIN SESSIONS[1].value.props = {nb}

\* C30: a parse-schema call whose source has a syntax error returns that
\* error and leaves the schema of the session as it was before the call, so
\* that a validate-schema right after it reports what the earlier schema
\* gives (nothing if there was none).
C30_SchemaKeptOnSyntaxError ==
    \A i \in 1..Len(calls) :
        (IsCallOn(i, "parse_schema") /\ ~Parse(calls[i].src).ok) =>
            /\ calls[i].reply = <<Parse(calls[i].src).err>>
            /\ StoreAfter(i)[calls[i].id].schema
                   = calls[i].before[calls[i].id].schema
            /\ \A j \in 1..Len(calls) :
                   (NextOnSame(i, j) /\ calls[j].op = "validate_schema") =>
                       calls[j].reply
                           = SessionSchemaErrors(calls[i].before, calls[i].id)

\* what the code does: the call returns the error and stores the tree
\* parse_motly returned, the empty node, as the schema of the session
C30_SchemaReplacedByEmpty ==
    \A i \in 1..Len(calls) :
        (IsCallOn(i, "parse_schema") /\ ~Parse(calls[i].src).ok) =>
            /\ calls[i].reply = <<Parse(calls[i].src).err>>
            /\ StoreAfter(i)[calls[i].id].schema = SomeSchema(NewNode)
            /\ StoreAfter(i)[calls[i].id].value
                   = calls[i].before[calls[i].id].value

\* and a validate-schema right after it reports every property of the value
\* as unknown, whatever the schema before the call was
C30_ThenEveryPropertyUnknown ==
    \A i \in 1..Len(calls) :
        (IsCallOn(i, "parse_schema") /\ ~Parse(calls[i].src).ok) =>
            \A j \in 1..Len(calls) :
                (NextOnSame(i, j) /\ calls[j].op = "validate_schema") =>
                    /\ Len(calls[j].reply)
                           = Cardinality(DOMAIN calls[i].before[calls[i].id].value.props)
                    /\ \A n \in 1..Len(calls[j].reply) :
                           calls[j].reply[n].code = "unknown-property"

\* a session without a schema holding a=1: after the failed parse-schema,
\* validate-schema reports an error
C30_WitnessNoSchema ==
    /\ Len(calls) >= 2
    /\ IsCallOn(1, "parse_schema")
    /\ calls[1].src = SchemaUnclosed
    /\ ~calls[1].before[calls[1].id].schema.some
    /\ calls[2].op = "validate_schema" /\ calls[2].id = calls[1].id
    /\ calls[2].reply # <<>>

\* a session with the schema Required:{a=number} holding a=1: validate-schema
\* reports nothing before the failed parse-schema and an error after it
C30_WitnessSchemaLost ==
    /\ Len(calls) = 3
    /\ calls[1].op = "validate_schema" /\ calls[1].reply = <<>>
    /\ IsCallOn(2, "parse_schema")
    /\ calls[2].id = calls[1].id
    /\ calls[2].src = SchemaUnclosed
    /\ calls[2].before[calls[2].id].schema.some
    /\ calls[2].before[calls[2].id].value # NewNode
    /\ calls[3].op = "validate_schema" /\ calls[3].id = calls[1].id
    /\ calls[3].reply # <<>>

---------------------------------------------------------------------------
(* The order of the errors of validate_schema: schemas with several keys   *)
(* in a section, a key in two sections, and a nested schema.               *)

NumberA == na :> NameSpec(TNumber)
NumberB == nb :> NameSpec(TNumber)
NumberC == nc :> NameSpec(TNumber)

OrderSchemas ==
    { \* Required { a = number  c = number }  Optional { b = number }
      SchemaOf(KRequired :> SectionNode(NumberA @@ NumberC)
               @@ KOptional :> SectionNode(NumberB)),
      \* Required { c = number }  Optional { b = number }
      SchemaOf(KRequired :> SectionNode(NumberC)
               @@ KOptional :> SectionNode(NumberB)),
      \* Required { b = number }  Optional { b = string }
      SchemaOf(KRequired :> SectionNode(NumberB)
               @@ KOptional :> SectionNode(nb :> NameSpec(TString))),
      \* Required { a { Required { c = string  b = number } }  b = number }
      SchemaOf(KRequired :> SectionNode(
                   (na :> SectionNode(KRequired :> SectionNode(
                              (nc :> NameSpec(TString)) @@ NumberB)))
                   @@ NumberB)),
      \* Optional { c = string  a = string }  Additional = number
      SchemaOf(KOptional :> SectionNode(
                   (nc :> NameSpec(TString)) @@ (na :> NameSpec(TString)))
               @@ KAdditional :> NameSpec(TNumber)) }

InitOrder ==
    /\ root = NewNode
    /\ errors = <<>>
    /\ pre = NewNode
    /\ last = NoStmt
    /\ steps = 0
    /\ lastClone = NoClone
    /\ root0 = NewNode
    /\ listA = <<>>
    /\ listB = <<>>
    /\ input = <<>>
    /\ schema \in OrderSchemas
    /\ StoreUnused

SpecOrder == InitOrder /\ [][NextSchema]_vars

\* the keys of S by String's Ord, the least first
InKeyOrder(S) ==
    CHOOSE q \in [1..Cardinality(S) -> S] :
        \A i, j \in 1..Cardinality(S) : i < j => StrLess(q[i], q[j])

\* what one key contributes in one of the three passes over a level: the
\* tag node `tag` against the schema node `schema_` at `path`
KeyResult(pass, k, tag, schema_, path) ==
    CASE pass = "Required" ->
             IF tag.hasProps /\ k \in DOMAIN tag.props
             THEN ValidateValueType(tag.props[k], SectionMap(schema_, KRequired)[k],
                                    ExtractSection(schema, KTypes),
                                    Append(path, k), <<>>)
             ELSE <<SchemaError("missing-required", "Missing required property",
                                Append(path, k))>>
      [] pass = "Optional" ->
             IF tag.hasProps /\ k \in DOMAIN tag.props
             THEN ValidateValueType(tag.props[k], SectionMap(schema_, KOptional)[k],
                                    ExtractSection(schema, KTypes),
                                    Append(path, k), <<>>)
             ELSE <<>>
      [] pass = "Unknown" ->
             IF k \in DOMAIN SectionMap(schema_, KRequired)
                          \cup DOMAIN SectionMap(schema_, KOptional)
             THEN <<>>
             ELSE ValidateUnknown(tag, <<k>>, {}, GetAdditionalPolicy(schema_),
                                  ExtractSection(schema, KTypes), path, <<>>)

\* the results of the keys of a pass, one after the other
RECURSIVE PassErrors(_, _, _, _, _)
PassErrors(pass, keys, tag, schema_, path) ==
    IF keys = <<>> THEN <<>>
    ELSE KeyResult(pass, keys[1], tag, schema_, path)
             \o PassErrors(pass, Tail(keys), tag, schema_, path)

\* Required, then Optional, then the keys of the tag
LevelErrors(tag, schema_, path) ==
    PassErrors("Required", InKeyOrder(DOMAIN SectionMap(schema_, KRequired)),
               tag, schema_, path)
        \o PassErrors("Optional", InKeyOrder(DOMAIN SectionMap(schema_, KOptional)),
                      tag, schema_, path)
        \o PassErrors("Unknown",
                      InKeyOrder(IF tag.hasProps THEN DOMAIN tag.props ELSE {}),
                      tag, schema_, path)

\* the Required keys of the schema whose spec is a nested schema and whose
\* value in the tag is a node
NestedKeys ==
    {k \in DOMAIN SectionMap(schema, KRequired) :
        /\ root.hasProps /\ k \in DOMAIN root.props
        /\ root.props[k].pv = "Node"
        /\ SectionMap(schema, KRequired)[k].pv = "Node"
        /\ HasNodeChild(SectionMap(schema, KRequired)[k].node, KRequired)}

\* C24: the errors of validate_schema are the results of the Required keys
\* in key order, then those of the Optional keys the tag has in key order,
\* then those of the keys of the tag that are in neither section in key
\* order; the errors of a nested value stand where the result of its key
\* stands and are ordered in the same way at their level.
C24_ErrorOrder ==
    last = ValidatedSchema =>
        /\ errors = LevelErrors(root, schema, <<>>)
        /\ \A k \in NestedKeys :
               ErrorsAt(k) = LevelErrors(root.props[k].node,
                                         SectionMap(schema, KRequired)[k].node,
                                         <<k>>)

\* Required c, Optional b and the unknown a, reported in that order
C24_Witness ==
    /\ last = ValidatedSchema
    /\ Len(errors) = 3
    /\ errors[1].code = "missing-required" /\ errors[1].path = <<nc>>
    /\ errors[2].code = "wrong-type" /\ errors[2].path = <<nb>>
    /\ errors[3].code = "unknown-property" /\ errors[3].path = <<na>>

\* the two errors under a come before the error of b
C24_WitnessNested ==
    /\ last = ValidatedSchema
    /\ Len(errors) = 3
    /\ errors[1].path = <<na, nb>>
    /\ errors[2].path = <<na, nc>>
    /\ errors[3].path = <<nb>>

---------------------------------------------------------------------------
(* validate_schema call by call. The calls validate_value_type,            *)
(* validate_base_type and validate_union make to each other are frames of  *)
(* `stack`; `errors` is the vector the running call appends to (the        *)
(* trial_errors of the innermost validate_union, or the caller's vector).  *)
(* The stack of the process is finite: a call made with MaxDepth frames on *)
(* the stack overflows it.                                                 *)

MaxDepth == 12

TT == <<"T">>

\* `= T`
IsT == NameSpec(TT)

TypeSchemas ==
    { \* Required { a = T }  Types { T = number }
      SchemaOf(KRequired :> SectionNode(na :> IsT)
               @@ KTypes :> SectionNode(TT :> NameSpec(TNumber))),
      \* Required { a = T }  Types { T = U  U = string }
      SchemaOf(KRequired :> SectionNode(na :> IsT)
               @@ KTypes :> SectionNode((TT :> NameSpec(TUnion))
                                        @@ (TUnion :> NameSpec(TString)))),
      \* Required { a = T }  Types { T { oneOf = [number, U] }  U { oneOf = [string, nope] } }
      SchemaOf(KRequired :> SectionNode(na :> IsT)
               @@ KTypes :> SectionNode((TT :> UnionSpec(<<TNumber, TUnion>>))
                                        @@ (TUnion :> UnionSpec(<<TString, TNope>>)))),
      \* Required { a = T }  Types { T = T }
      SchemaOf(KRequired :> SectionNode(na :> IsT)
               @@ KTypes :> SectionNode(TT :> IsT)),
      \* Required { a = T }  Types { T { oneOf = [T] } }
      SchemaOf(KRequired :> SectionNode(na :> IsT)
               @@ KTypes :> SectionNode(TT :> UnionSpec(<<TT>>))),
      \* Required { a = T }  Types { T { oneOf = [string, T] } }
      SchemaOf(KRequired :> SectionNode(na :> IsT)
               @@ KTypes :> SectionNode(TT :> UnionSpec(<<TString, TT>>))),
      \* Required { a = T }  Types { T = U  U = T }
      SchemaOf(KRequired :> SectionNode(na :> IsT)
               @@ KTypes :> SectionNode((TT :> NameSpec(TUnion))
                                        @@ (TUnion :> IsT))),
      \* Required { a { oneOf = [number, T] } }  Types { T { oneOf = [boolean, U] }  U = T }
      SchemaOf(KRequired :> SectionNode(na :> UnionSpec(<<TNumber, TT>>))
               @@ KTypes :> SectionNode((TT :> UnionSpec(<<TBoolean, TUnion>>))
                                        @@ (TUnion :> IsT))) }

\* a = hi, a = 1, a = @true, and the empty document
TypeTags ==
    { NewNode,
      Execute(<<SetEq(<<na>>, VString(<<"h", "i">>), FALSE, NoProps)>>, NewNode).node,
      Execute(<<SetEq(<<na>>, VNumber(Dec(1, 0)), FALSE, NoProps)>>, NewNode).node,
      Execute(<<SetEq(<<na>>, VBoolean(TRUE), FALSE, NoProps)>>, NewNode).node }

Validating == [kind |-> "Validating"]
StackOverflow == [kind |-> "StackOverflow"]

InitTypes ==
    /\ root \in TypeTags
    /\ errors = <<>>
    /\ pre = root
    /\ last = NoStmt
    /\ steps = 0
    /\ lastClone = NoClone
    /\ root0 = root
    /\ listA = <<>>
    /\ listB = <<>>
    /\ input = <<>>
    /\ schema \in TypeSchemas
    /\ StoreUnused

\* a call of validate_value_type(value, type_spec, types, path, errors)
ValueTypeCall(value, type_spec, path) ==
    [fn |-> "validate_value_type", value |-> value, spec |-> type_spec,
     path |-> path]

\* a call of validate_base_type(value, type_name, types, path, errors)
BaseTypeCall(value, type_name, path) ==
    [fn |-> "validate_base_type", value |-> value, type_name |-> type_name,
     path |-> path]

\* a call of validate_union in its loop: `i` the member it is at, `waiting`
\* while the trial of that member runs, `outer` the errors of its caller
UnionCall(value, type_names, path, outer) ==
    [fn |-> "validate_union", value |-> value, type_names |-> type_names,
     path |-> path, outer |-> outer, i |-> 1, waiting |-> FALSE]

\* the types argument of every call
TypesOfSchema == ExtractSection(schema, KTypes)

\* the call on top of `stk` has returned, `errs` the vector it wrote to:
\* validate_value_type and validate_base_type return after their callee; a
\* validate_union returns if the trial gave no error and goes to its next
\* member otherwise
RECURSIVE Return(_, _)
Return(stk, errs) ==
    IF stk = <<>> THEN [stack |-> <<>>, errors |-> errs]
    ELSE IF Last(stk).fn # "validate_union" THEN Return(Front(stk), errs)
    ELSE IF errs = <<>> THEN Return(Front(stk), Last(stk).outer)
    ELSE [stack |-> Append(Front(stk),
                           [Last(stk) EXCEPT !.i = @ + 1, !.waiting = FALSE]),
          errors |-> Last(stk).outer]

\* the state after the running call returned
Returned(r) ==
    /\ stack' = r.stack
    /\ errors' = r.errors
    /\ last' = IF r.stack = <<>> THEN ValidatedSchema ELSE last

\* the running call calls `frame`, with `errs` the vector the callee gets
Calling(stk, frame, errs) ==
    IF Len(stk) < MaxDepth
    THEN /\ stack' = Append(stk, frame)
         /\ errors' = errs
         /\ last' = Validating
    ELSE /\ last' = StackOverflow
         /\ UNCHANGED <<stack, errors>>

typeFrame ==
    <<root, pre, steps, lastClone, root0, listA, listB, input, schema,
      SESSIONS, NEXT_SESSION_ID, calls>>

\* validate_schema and the Required loop of validate_node_against_schema, up
\* to the call of validate_value_type for the key the schema requires
ValidateStart ==
    /\ last = NoStmt
    /\ IF root.hasProps /\ na \in DOMAIN root.props
       THEN Calling(<<>>,
                    ValueTypeCall(root.props[na], SectionMap(schema, KRequired)[na],
                                  <<na>>),
                    <<>>)
       ELSE Returned([stack |-> <<>>, errors |-> ValidateSchema(root, schema)])
    /\ UNCHANGED typeFrame

\* the spec is a type name and nothing else
IsNameSpec(spec) ==
    /\ spec.pv = "Node"
    /\ ~HasNodeChild(spec.node, KOneOf)
    /\ ~(HasNodeChild(spec.node, KEq) /\ spec.node.props[KEq].node.eq.k = "Array")
    /\ ~HasNodeChild(spec.node, KMatches)
    /\ HasEqString(spec.node)

\* the spec is a union over an array
IsUnionOverArray(spec) ==
    /\ spec.pv = "Node"
    /\ HasNodeChild(spec.node, KOneOf)
    /\ spec.node.props[KOneOf].node.eq.k = "Array"

\* the body of validate_value_type for the call on top of the stack
ValueTypeStep ==
    /\ last = Validating
    /\ stack # <<>>
    /\ Last(stack).fn = "validate_value_type"
    /\ IF IsUnionOverArray(Last(stack).spec)
       THEN Calling(stack,
                    UnionCall(Last(stack).value,
                              Last(stack).spec.node.props[KOneOf].node.eq.arr,
                              Last(stack).path, errors),
                    errors)
       ELSE IF IsNameSpec(Last(stack).spec)
       THEN Calling(stack,
                    BaseTypeCall(Last(stack).value,
                                 EqStringOf(Last(stack).spec.node),
                                 Last(stack).path),
                    errors)
       ELSE Returned(Return(Front(stack),
                            ValidateValueType(Last(stack).value, Last(stack).spec,
                                              TypesOfSchema, Last(stack).path,
                                              errors)))
    /\ UNCHANGED typeFrame

\* the type name is looked up in the Types section and is there
IsDefinedType(type_name) ==
    /\ ~IsArrayTypeName(type_name)
    /\ type_name \notin {TString, TNumber, TBoolean, TDate, TTag, TFlag, TAny}
    /\ TypesOfSchema.some
    /\ type_name \in DOMAIN TypesOfSchema.map

\* the body of validate_base_type for the call on top of the stack
BaseTypeStep ==
    /\ last = Validating
    /\ stack # <<>>
    /\ Last(stack).fn = "validate_base_type"
    /\ IF IsDefinedType(Last(stack).type_name)
       THEN Calling(stack,
                    ValueTypeCall(Last(stack).value,
                                  TypesOfSchema.map[Last(stack).type_name],
                                  Last(stack).path),
                    errors)
       ELSE Returned(Return(Front(stack),
                            ValidateBaseType(Last(stack).value,
                                             Last(stack).type_name, TypesOfSchema,
                                             Last(stack).path, errors)))
    /\ UNCHANGED typeFrame

\* one turn of the loop of validate_union for the call on top of the stack
UnionStep ==
    /\ last = Validating
    /\ stack # <<>>
    /\ Last(stack).fn = "validate_union"
    /\ ~Last(stack).waiting
    /\ IF Last(stack).i > Len(Last(stack).type_names)
       THEN Returned(Return(Front(stack),
                            Append(Last(stack).outer,
                                   SchemaError("wrong-type",
                                       "Value does not match any type in oneOf",
                                       Last(stack).path))))
       ELSE IF ~ValueHasEqString(Last(stack).type_names[Last(stack).i])
       THEN /\ stack' = Append(Front(stack), [Last(stack) EXCEPT !.i = @ + 1])
            /\ UNCHANGED <<errors, last>>
       ELSE Calling(Append(Front(stack), [Last(stack) EXCEPT !.waiting = TRUE]),
                    ValueTypeCall(Last(stack).value,
                        PvNode(MakeTypeSpecNode(EqStringOf(
                            Last(stack).type_names[Last(stack).i].node))),
                        Last(stack).path),
                    <<>>)
    /\ UNCHANGED typeFrame

NextTypes == ValidateStart \/ ValueTypeStep \/ BaseTypeStep \/ UnionStep

\* every call that can run does run
SpecTypes == InitTypes /\ [][NextTypes]_vars /\ WF_vars(NextTypes)

\* the names a type spec refers to
NamesOf(spec) ==
    IF IsUnionOverArray(spec) THEN MemberNames(spec)
    ELSE IF IsNameSpec(spec) THEN {EqStringOf(spec.node)}
    ELSE {}

\* the names of the Types section that can be reached from `names`
RECURSIVE ReachableTypes(_)
ReachableTypes(names) ==
    IF \A n \in names :
           IsDefinedType(n) => NamesOf(TypesOfSchema.map[n]) \subseteq names
    THEN names
    ELSE ReachableTypes(names \cup UNION {NamesOf(TypesOfSchema.map[n]) :
                                              n \in {m \in names : IsDefinedType(m)}})

\* a type of the schema is defined, directly or not, in terms of itself
HasTypeCycle ==
    \E n \in DOMAIN TypesOfSchema.map :
        n \in ReachableTypes(NamesOf(TypesOfSchema.map[n]))

\* C25: validate_schema returns, whatever the tag and the schema, also when
\* a type of the Types section is defined in terms of itself.
C25_Terminates == <>(last = ValidatedSchema)

\* a call is on the stack twice with the same arguments
RepeatedCall ==
    \E i, j \in 1..Len(stack) :
        /\ i < j
        /\ stack[i].fn = "validate_base_type"
        /\ stack[j].fn = "validate_base_type"
        /\ stack[i].type_name = stack[j].type_name
        /\ stack[i].value = stack[j].value
        /\ stack[i].path = stack[j].path

\* what the code does: the stack overflows only in a call that is nested in
\* a call with the same arguments, under a schema with a type cycle; and
\* when validate_schema returns, it returns the errors of the validator
C25_OverflowOnlyOnCycle ==
    /\ last = StackOverflow => (RepeatedCall /\ HasTypeCycle)
    /\ last = ValidatedSchema => errors = ValidateSchema(root, schema)
    /\ ~HasTypeCycle => ~RepeatedCall /\ Len(stack) < MaxDepth

\* Types { T = T }: the stack overflows in validate_base_type(a, "T")
C25_WitnessSelf ==
    /\ last = StackOverflow
    /\ TypesOfSchema.map[TT] = IsT
    /\ root.props[na].node.eq = EqScalar(ScNumber(Dec(1, 0)))

\* Types { T { oneOf = [string, T] } } and a = hi: the first member matches
\* and validate_schema returns no error
C25_WitnessReturns ==
    /\ last = ValidatedSchema
    /\ HasTypeCycle
    /\ root.hasProps
    /\ errors = <<>>

---------------------------------------------------------------------------
(* Where validate_references starts the resolution of each Link: the walk  *)
(* of walk_refs with the ancestors kept as the paths of the nodes pushed.  *)

NoStart == [ok |-> FALSE]

StartAt(path) == [ok |-> TRUE, path |-> path]

\* the start node check_link takes for a Link with `ups` carets: the path
\* of ancestors[len - ups], or NoStart when there are too few ancestors
StartOf(link, at, ancestors) ==
    [at |-> at, ups |-> ParseLinkString(link).ups,
     start |-> IF ParseLinkString(link).ups = 0 THEN StartAt(<<>>)
               ELSE IF ParseLinkString(link).ups <= Len(ancestors)
               THEN StartAt(ancestors[Len(ancestors) - ParseLinkString(link).ups + 1])
               ELSE NoStart]

RECURSIVE StartsBelow(_, _, _)

\* one array element or property value of the node at `path`
StartsOfChild(pv, key, path, ancestors) ==
    IF pv.pv = "Ref" THEN {StartOf(pv.link, Append(path, key), ancestors)}
    ELSE StartsBelow(pv.node, Append(path, key), Append(ancestors, path))

\* walk_refs and walk_array_refs: the start of every Link below `node`
StartsBelow(node, path, ancestors) ==
    UNION ({StartsOfChild(node.eq.arr[i], IndexKey(i - 1), path, ancestors) :
                i \in 1..(IF node.eq.k = "Array" THEN Len(node.eq.arr) ELSE 0)}
           \cup {StartsOfChild(node.props[k], k, path, ancestors) :
                     k \in (IF node.hasProps THEN DOMAIN node.props ELSE {})})

\* validate_references: the ancestors are seeded with the root
LinkStarts(tree) == StartsBelow(tree, <<>>, <<<<>>>>)

\* the relative Links that are inside the node at path p
RelativeLinksIn(tree, p) ==
    {s \in LinkStarts(tree) : s.ups > 0 /\ IsPrefix(p, s.at) /\ s.at # p}

\* the last statement was a resolved `p := $ref` without a block
LastPlainClone == LastCloneResolved /\ ~last.hasProps

\* C26: after a successful `p := $ref` without a block, every relative Link
\* left inside the node at p starts its resolution, by the rule of
\* validate_references, at the clone root or below it.
C26_StartsInsideClone ==
    LastPlainClone =>
        \A s \in RelativeLinksIn(root, last.path) :
            s.start.ok /\ IsPrefix(last.path, s.start.path)

\* what the code gives: every relative Link left inside the node at p has a
\* start node, and it is the parent of the clone root or below it
C26_StartsAtParentOrBelow ==
    LastPlainClone =>
        \A s \in RelativeLinksIn(root, last.path) :
            /\ s.ups <= Len(s.at) - Len(last.path)
            /\ s.start.ok
            /\ IsPrefix(Front(last.path), s.start.path)

\* a Link at depth d of the clone with d carets is kept and starts at the
\* parent of the clone root
C26_WitnessParent ==
    /\ LastPlainClone
    /\ \E s \in RelativeLinksIn(root, last.path) :
           /\ s.ups = Len(s.at) - Len(last.path)
           /\ s.start = StartAt(Front(last.path))

---------------------------------------------------------------------------
(* The same reference cloned (`p := $ref`) and linked (`p = $ref`, then    *)
(* validate_references), on the same tree.                                  *)

AgreeTrees ==
    { NewNode,
      \* b = 1
      Execute(<<SetEq(<<nb>>, VNumber(Dec(1, 0)), FALSE, NoProps)>>, NewNode).node,
      \* a { b = 1  c { b = 2 } }  b = [1, 2]
      Execute(<<SetEq(<<na, nb>>, VNumber(Dec(1, 0)), FALSE, NoProps),
                SetEq(<<na, nc, nb>>, VNumber(Dec(2, 0)), FALSE, NoProps),
                SetEq(<<nb>>,
                      VArray(<<ArrayElement(TRUE, VNumber(Dec(1, 0)), FALSE, NoProps),
                               ArrayElement(TRUE, VNumber(Dec(2, 0)), FALSE, NoProps)>>),
                      FALSE, NoProps)>>, NewNode).node,
      \* a { c = $b }  b = 1  c { b = 3 }
      Execute(<<SetEq(<<na, nc>>, Ref(0, <<SegName(nb)>>), FALSE, NoProps),
                SetEq(<<nb>>, VNumber(Dec(1, 0)), FALSE, NoProps),
                SetEq(<<nc, nb>>, VNumber(Dec(3, 0)), FALSE, NoProps)>>, NewNode).node }

AgreePaths == { <<na>>, <<nc>>, <<na, nb>>, <<na, nc>>, <<na, nc, na>> }

MaxUps == 3

AgreeRefs ==
    { Ref(ups, segs) :
        ups \in 0..MaxUps,
        segs \in { <<SegName(nb)>>,
                   <<SegName(nc)>>,
                   <<SegName(na), SegName(nb)>>,
                   <<SegName(nb), SegIndex(0)>>,
                   <<SegName(na), SegName(nc), SegName(nb)>> } }

InitAgree ==
    /\ root \in AgreeTrees
    /\ errors = <<>>
    /\ pre = root
    /\ last = NoStmt
    /\ steps = 0
    /\ lastClone = NoClone
    /\ root0 = root
    /\ listA = <<>>
    /\ listB = <<>>
    /\ input = <<>>
    /\ schema = NewNode
    /\ StoreUnused

\* one statement executed on the tree
AgreeStep(stmt) ==
    /\ last = NoStmt
    /\ \E r \in {ExecuteStatement(stmt, root, <<>>)} :
           /\ root' = r.node
           /\ errors' = r.errs
    /\ last' = stmt
    /\ UNCHANGED <<pre, steps, lastClone, root0, listA, listB, input, schema,
                   SESSIONS, NEXT_SESSION_ID, calls, stack>>

\* `p := $ref`
AgreeClone ==
    \E p \in AgreePaths, ref \in AgreeRefs : AgreeStep(AssignBoth(p, ref, FALSE, NoProps))

\* `p = $ref`
AgreeLink ==
    \E p \in AgreePaths, ref \in AgreeRefs : AgreeStep(SetEq(p, ref, FALSE, NoProps))

LinkValidated(stmt) == [kind |-> "LinkValidated", path |-> stmt.path, value |-> stmt.value]

\* validate_references(&tree) after `p = $ref`
AgreeValidate ==
    /\ last.kind = "SetEq"
    /\ errors' = ValidateReferences(root)
    /\ last' = LinkValidated(last)
    /\ UNCHANGED <<root, pre, steps, lastClone, root0, listA, listB, input, schema,
                   SESSIONS, NEXT_SESSION_ID, calls, stack>>

NextAgree == AgreeClone \/ AgreeLink \/ AgreeValidate

SpecAgree == InitAgree /\ [][NextAgree]_vars

\* every proper prefix of p is a Node of the tree
IntermediatesAreNodes(tree, p) ==
    \A i \in 1..(Len(p) - 1) : Lookup(tree, SubSeq(p, 1, i)).pv = "Node"

\* the traversal of segs from pvv comes to a Link
RECURSIVE MeetsLink(_, _)
MeetsLink(pvv, segs) ==
    IF pvv.pv = "Ref" THEN TRUE
    ELSE IF segs = <<>> THEN FALSE
    ELSE IF segs[1].seg = "Name"
    THEN /\ pvv.node.hasProps
         /\ segs[1].name \in DOMAIN pvv.node.props
         /\ MeetsLink(pvv.node.props[segs[1].name], Tail(segs))
    ELSE /\ pvv.node.eq.k = "Array"
         /\ segs[1].idx < Len(pvv.node.eq.arr)
         /\ MeetsLink(pvv.node.eq.arr[segs[1].idx + 1], Tail(segs))

\* the path of the node a reference with `ups` carets written at p starts
\* from: the root, or p without its last 1 + ups names, or the root again
\* when ups is the length of p (the seed of the ancestors)
StartPath(p, ups) ==
    IF ups = 0 \/ ups >= Len(p) THEN <<>> ELSE SubSeq(p, 1, Len(p) - 1 - ups)

\* the names the traversal of (ups, segs) follows from the root
NamesFollowed(p, ups, segs) ==
    [i \in 1..Len(StartPath(p, ups)) |-> SegName(StartPath(p, ups)[i])] \o segs

\* the traversal goes through the place p
PassesThrough(p, ups, segs) ==
    \E n \in 1..Len(NamesFollowed(p, ups, segs)) :
        [i \in 1..n |-> IF NamesFollowed(p, ups, segs)[i].seg = "Name"
                        THEN NamesFollowed(p, ups, segs)[i].name
                        ELSE <<>>] = p

\* the case the agreement is about
AgreeCase(tree, p, ref) ==
    /\ IntermediatesAreNodes(tree, p)
    /\ ~MeetsLink(PvNode(tree), NamesFollowed(p, ref.ups, ref.path))
    /\ ~PassesThrough(p, ref.ups, ref.path)

\* `p := $ref` on the tree resolves
CloneResolves(tree, p, ref) ==
    ~HasCode(ExecuteStatement(AssignBoth(p, ref, FALSE, NoProps), tree, <<>>).errs,
             "unresolved-clone-reference")

\* validate_references has no error for the Link at p
LinkAccepted(errs, p) == \A i \in 1..Len(errs) : errs[i].path # p

\* C27: `p := $ref` resolves iff, after `p = $ref` on the same tree,
\* validate_references reports no error for the Link at p.
C27_CloneAgreesWithValidation ==
    (last.kind = "LinkValidated" /\ AgreeCase(root0, last.path, last.value))
        => (CloneResolves(root0, last.path, last.value)
                <=> LinkAccepted(errors, last.path))

\* what the code gives: the two agree unless the reference has as many
\* carets as p has names; then the clone never resolves, and the Link is
\* resolved from the root
C27_AgreeBelowTop ==
    (last.kind = "LinkValidated" /\ AgreeCase(root0, last.path, last.value))
        => IF last.value.ups = Len(last.path)
           THEN /\ ~CloneResolves(root0, last.path, last.value)
                /\ LinkAccepted(errors, last.path)
                       <=> ~CheckParsed([ups |-> 0, segments |-> last.value.path],
                                        <<root>>, root).some
           ELSE CloneResolves(root0, last.path, last.value)
                    <=> LinkAccepted(errors, last.path)

\* the clone run gives what CloneResolves says
C27_CloneRun ==
    (last.kind = "AssignBoth")
        => (CloneResolves(root0, last.path, last.value)
                <=> ~HasCode(errors, "unresolved-clone-reference"))

\* `a = $^b` is accepted and `a := $^b` is not
C27_WitnessTop ==
    /\ last.kind = "LinkValidated"
    /\ AgreeCase(root0, last.path, last.value)
    /\ last.value.ups = Len(last.path)
    /\ LinkAccepted(errors, last.path)
    /\ ~CloneResolves(root0, last.path, last.value)

\* both resolve a relative reference below the top
C27_WitnessAgree ==
    /\ last.kind = "LinkValidated"
    /\ AgreeCase(root0, last.path, last.value)
    /\ last.value.ups > 0
    /\ last.value.ups < Len(last.path)
    /\ LinkAccepted(errors, last.path)
    /\ CloneResolves(root0, last.path, last.value)

---------------------------------------------------------------------------
(* Tombstones: the nodes that carry the deleted flag.                       *)

\* the nodes of the tree below and including `node`
RECURSIVE NodesIn(_)
NodesIn(node) ==
    {node} \cup UNION {NodesIn(c.node) : c \in {x \in Children(node) : x.pv = "Node"}}

IsEmptyNode(node) == node.eq.k = "None" /\ ~node.hasProps

\* C28: in every tree reachable from the empty root, every node whose
\* deleted flag is true has no eq and no properties.
C28_TombstonesStayEmpty ==
    \A n \in NodesIn(root) : n.deleted => IsEmptyNode(n)

LastIsTombstone ==
    /\ last.kind \in {"SetEq", "UpdateProperties", "Define", "AssignBoth",
                      "ReplaceProperties"}
    /\ Lookup(pre, last.path).pv = "Node"
    /\ Lookup(pre, last.path).node.deleted

\* what the code gives: `-name` puts an empty tombstone at the name;
\* `name = value` and `name { .. }` on a tombstone write into it and leave
\* its flag set; `name` leaves it as it is; `name := value` without a
\* reference and `name: { .. }` put a new node that is not deleted
C28_TombstoneWrites ==
    /\ (last.kind = "Define" /\ last.deleted)
           => Lookup(root, last.path) = PvNode(DeletedNode)
    /\ (LastIsTombstone /\ last.kind = "SetEq" /\ last.value.t # "Reference")
           => Lookup(root, last.path).node.deleted
    /\ (LastIsTombstone /\ last.kind = "UpdateProperties")
           => Lookup(root, last.path).node.deleted
    /\ (LastIsTombstone /\ last.kind = "Define" /\ ~last.deleted)
           => Lookup(root, last.path) = Lookup(pre, last.path)
    /\ (LastIsTombstone /\ last.kind = "ReplaceProperties")
           => ~Lookup(root, last.path).node.deleted
    /\ (LastIsTombstone /\ last.kind = "AssignBoth" /\ last.value.t # "Reference")
           => ~Lookup(root, last.path).node.deleted

\* `-a` then `a = 1`: the node at a has an eq and is deleted
C28_WitnessValue ==
    /\ LastIsTombstone
    /\ last.kind = "SetEq"
    /\ Lookup(root, last.path).pv = "Node"
    /\ Lookup(root, last.path).node.deleted
    /\ Lookup(root, last.path).node.eq.k # "None"

\* `-b` then `b { a = 1 }`: the node at b has properties and is deleted
C28_WitnessProperties ==
    /\ LastIsTombstone
    /\ last.kind = "UpdateProperties"
    /\ Lookup(root, last.path).node.deleted
    /\ Lookup(root, last.path).node.hasProps

---------------------------------------------------------------------------
(* The string of a reference: `b = $ref` parsed and executed puts          *)
(* format_ref_string(ups, path) in the Link at b; parse_link_string and    *)
(* parse_ref_ups read it back.                                             *)

MaxLinkFrags == 3

\* `b=$`
LinkHead == <<"b", "=", "$">>

LinkFragments ==
    { <<"^", "a">>,                                   \* ^a
      <<"a">>,
      <<".", "b">>,                                   \* .b
      IndexKey(0),                                    \* [0]
      IndexKey(1),                                    \* [1]
      <<"BQ", "a", ".", "b", "BQ">>,                  \* `a.b`
      <<"BQ", "^", "a", "BQ">>,                       \* `^a`
      <<"BQ", "a", "[", "0", "]", "BQ">>,             \* `a[0]`
      <<".", "BQ", "b", "[", "BQ">>,                  \* .`b[`
      <<"BQ", "BQ">> }                                \* ``

\* LinkHead followed by at most n fragments
RECURSIVE LinkSources(_)
LinkSources(n) ==
    IF n = 0 THEN {LinkHead}
    ELSE LinkSources(n - 1) \cup {s \o f : s \in LinkSources(n - 1), f \in LinkFragments}

InitParseLink ==
    /\ root0 = NewNode
    /\ input \in LinkSources(MaxLinkFrags)
    /\ schema = NewNode
    /\ root = root0
    /\ errors = <<>>
    /\ pre = root0
    /\ last = NoStmt
    /\ steps = 0
    /\ lastClone = NoClone
    /\ listA = <<>>
    /\ listB = <<>>
    /\ StoreUnused

SpecParseLink == InitParseLink /\ [][NextParse]_vars

\* the input was parsed as one statement `b = $ref` and executed
ParsedOneLink ==
    /\ steps = 1
    /\ Parse(input).ok
    /\ Len(Parse(input).val) = 1
    /\ Parse(input).val[1].kind = "SetEq"
    /\ Parse(input).val[1].value.t = "Reference"

\* the Reference the parser produced
ParsedRef == Parse(input).val[1].value

\* the string execute_set_eq put in the Link at b
LinkAtB == root.props[nb].link

ReadsBack ==
    /\ ParseLinkString(LinkAtB) = [ups |-> ParsedRef.ups, segments |-> ParsedRef.path]
    /\ ParseRefUps(LinkAtB) = ParsedRef.ups

\* C29: for every Reference the parser can produce, names written with
\* backticks included, parse_link_string of the string format_ref_string
\* gives returns the same ups and the same segments, and parse_ref_ups the
\* same ups.
C29_RefStringRoundTrip ==
    ParsedOneLink =>
        /\ root.props[nb] = PvRef(FormatRefString(ParsedRef.ups, ParsedRef.path))
        /\ ReadsBack

\* no name of the path is empty or holds `.` or `[`, and the first name does
\* not begin with `^`
PlainNames(path) ==
    /\ \A i \in 1..Len(path) :
           path[i].seg = "Name" =>
               /\ path[i].name # <<>>
               /\ \A j \in 1..Len(path[i].name) : path[i].name[j] \notin {".", "["}
    /\ path[1].name[1] # "^"

\* what the code gives: the string reads back as the Reference exactly when
\* its names are plain
C29_PlainNamesRoundTrip ==
    ParsedOneLink =>
        /\ root.props[nb] = PvRef(FormatRefString(ParsedRef.ups, ParsedRef.path))
        /\ ReadsBack <=> PlainNames(ParsedRef.path)

\* `b=$^a[1].b` reads back as 1 up and a, [1], b
C29_WitnessPlain ==
    /\ ParsedOneLink
    /\ ParsedRef.ups = 1
    /\ ParsedRef.path = <<SegName(na), SegIndex(1), SegName(nb)>>
    /\ ReadsBack

\* b=$`a.b` : the one name a.b reads back as the names a and b
C29_WitnessDot ==
    /\ ParsedOneLink
    /\ ParsedRef.path = <<SegName(<<"a", ".", "b">>)>>
    /\ ParseLinkString(LinkAtB).segments = <<SegName(na), SegName(nb)>>

\* b=$`^a` : no up and the name ^a read back as one up and the name a
C29_WitnessCaret ==
    /\ ParsedOneLink
    /\ ParsedRef.ups = 0
    /\ ParsedRef.path = <<SegName(<<"^", "a">>)>>
    /\ ParseLinkString(LinkAtB) = [ups |-> 1, segments |-> <<SegName(na)>>]
    /\ ParseRefUps(LinkAtB) = 1

====
